---- MODULE Spec2Model ----
(***************************************************************************)
(* State-machine model of ChatServer (src/server.py): the presence map,    *)
(* identity store, per-user friend files, offline queues and group roster, *)
(* and one action per frame handler.  Each handler runs to completion in   *)
(* one step (the operations are executed one at a time).                   *)
(*                                                                         *)
(* Abstractions: a frame is a record with the fields the handlers route    *)
(* on; timestamps and the profile fields other than the password are left  *)
(* out; `stored` marks a message that went through store_offline_message   *)
(* (which stamps it); a MEDIA payload (filename, data) is one value.       *)
(*                                                                         *)
(* The framing layer (send_json, recv_json and the read loop of            *)
(* handle_client) is modelled on one connection, byte by byte, with one    *)
(* step per sock.recv call; see "framed connection" below.                 *)
(***************************************************************************)
EXTENDS Integers, Sequences, FiniteSets, TLC

\* ---------------------------------------------------------------- bounds
MaxQueue == 3     \* longest offline queue explored per user
MaxNotes == 1     \* most notifications queued in total (friend and group specs)

\* ---------------------------------------------------------------- universe
Users == {"a", "b", "c"}
Pair == {"a", "b"}          \* the handles of the two-party specifications
Conns == {"c1", "c2"}
Groups == {"g"}
Passwords == {"p", "q"}
Payloads == {"m1", "m2"}

None == "None"          \* Python None for a handler's `username`
NoConn == "NoConn"      \* handle absent from self.clients
NoUser == [password |-> "-"]   \* handle absent from self.users_db
NoGroup == [admin |-> "-", members |-> <<>>, description |-> "-"]  \* name absent from self.groups_db
Descriptions == {"d1", "d2"}

VARIABLES
    clients,            \* self.clients: handle -> connection, or NoConn
    users_db,           \* self.users_db: handle -> stored record, or NoUser
    groups_db,          \* self.groups_db: name -> [admin, members], or NoGroup
    offline_messages,   \* self.offline_messages: handle -> list of messages
    friends,            \* data/friends_<handle>.json: handle -> set of handles
    sock,               \* connection -> "closed" | "open" | "broken"
    username,           \* handle_client's local `username` per connection
    sent,               \* frames written to sockets by the last handler, in order
    last,               \* the frame the last handler processed
    wire,               \* bytes the peer of the framed connection wrote, not yet read
    peer_closed,        \* that peer has closed its end: recv returns b'' once wire is empty
    pc,                 \* where its handler is: "header" | "data" | "dispatch" | "done"
    length_bytes,       \* recv_json's length_bytes
    data,               \* recv_json's data
    log,                \* what each recv_json call of the handler came to, in order
    written,            \* the frames the peer wrote, in order
    lock,               \* self.lock: the connection whose handler holds it, or NoConn
    thread,             \* connection -> where its handler is inside a stepwise handler
    queue_keys,         \* handles that are keys of self.offline_messages (tracked where
                        \* store_offline_message is taken step by step)
    stream              \* bytes the server has written to the framed connection, in order

stores == <<clients, users_db, groups_db, offline_messages, friends>>
framing == <<wire, peer_closed, pc, length_bytes, data, log, written>>
threads == <<lock, thread>>
extras == <<queue_keys, stream>>
vars == <<clients, users_db, groups_db, offline_messages, friends,
          sock, username, sent, last,
          wire, peer_closed, pc, length_bytes, data, log, written,
          lock, thread, queue_keys, stream>>

\* ---------------------------------------------------------------- frames
Frame(type, from, arg) ==
    [type |-> type, from |-> from, arg |-> arg,
     groups |-> {}, messages |-> <<>>, stored |-> FALSE]

Wr(c, frame) == [conn |-> c, frame |-> frame]

Req(op, c, from, to, arg) ==
    [op |-> op, conn |-> c, from |-> from, to |-> to, arg |-> arg]

RECURSIVE SeqToSet(_)
SeqToSet(s) == IF s = <<>> THEN {} ELSE {Head(s)} \cup SeqToSet(Tail(s))

\* ---------------------------------------------------------------- send_json
\* sock.sendall raises when the socket was closed by the server or reset by
\* the peer; otherwise the frame is written whole.
send_json_ok(c) == sock[c] = "open"

\* ---------------------------------------------------------------- friend files
load_friends(u) == friends[u]

add_friend_one_side(f, user1, user2) ==
    [f EXCEPT ![user1] = f[user1] \cup {user2}]

add_friend_relationship(f, user1, user2) ==
    LET user1_friends == f[user1] \cup {user2}
        user2_friends == f[user2] \cup {user1}
    IN  [[f EXCEPT ![user1] = user1_friends] EXCEPT ![user2] = user2_friends]

remove_friend_relationship(f, user1, user2) ==
    LET user1_friends == f[user1] \ {user2}
        user2_friends == f[user2] \ {user1}
    IN  [[f EXCEPT ![user1] = user1_friends] EXCEPT ![user2] = user2_friends]

\* ---------------------------------------------------------------- offline queue
store_offline_message_front(q, u, message) ==
    [q EXCEPT ![u] = <<[message EXCEPT !.stored = TRUE]>> \o @]

store_offline_message(q, u, message) ==
    [q EXCEPT ![u] = Append(@, [message EXCEPT !.stored = TRUE])]

QueueBounded(q) == \A u \in Users : Len(q[u]) <= MaxQueue

RECURSIVE TotalQueued(_, _)
TotalQueued(q, U) ==
    IF U = {} THEN 0
    ELSE LET u == CHOOSE x \in U : TRUE
         IN  Len(q[u]) + TotalQueued(q, U \ {u})

\* send_offline_messages(username), called with clients[username] = c:
\* the frames it writes and the queue it leaves.
OfflineBatch(messages) ==
    [Frame("OFFLINE_MESSAGES", "-", "-") EXCEPT !.messages = messages]

send_offline_messages_writes(q, u, c) ==
    IF q[u] # <<>> /\ send_json_ok(c)
    THEN << Wr(c, OfflineBatch(q[u])) >>
    ELSE << >>

send_offline_messages_keep(q, u, c) == q

send_offline_messages_queue(q, u, c) ==
    IF q[u] # <<>> /\ send_json_ok(c)
    THEN [q EXCEPT ![u] = <<>>]
    ELSE q

\* ---------------------------------------------------------------- routing
\* "if to_user in self.clients: try send_json(...) except: store_offline_message
\*  else: store_offline_message" as used by the routed kinds.
IsOnline(u) == clients[u] # NoConn

Delivered(to) == IsOnline(to) /\ send_json_ok(clients[to])

route_writes_never(to, live) == << >>

route_writes(to, live) ==
    IF Delivered(to) THEN << Wr(clients[to], live) >> ELSE << >>

route_queue_always(q, to, offline) == store_offline_message(q, to, offline)

route_queue(q, to, offline) ==
    IF Delivered(to) THEN q ELSE store_offline_message(q, to, offline)

\* ---------------------------------------------------------------- Init
\* A handler that is not inside a stepwise handler: it waits in recv_json.
Idle ==
    [pc |-> "idle", to |-> "-", frame |-> Frame("-", "-", "-"), why |-> "-",
     user1 |-> "-", user2 |-> "-", user1_friends |-> {}, user2_friends |-> {},
     dest |-> NoConn, rest |-> <<>>]

ThreadsInit ==
    /\ lock = NoConn
    /\ thread = [c \in Conns |-> Idle]

\* self.offline_messages = {} and nothing written yet.
ExtrasInit ==
    /\ queue_keys = {}
    /\ stream = <<>>

\* The framed connection before any byte has been written or read.
FramingInit ==
    /\ wire = <<>>
    /\ peer_closed = FALSE
    /\ pc = "header"
    /\ length_bytes = <<>>
    /\ data = <<>>
    /\ log = <<>>
    /\ written = <<>>

Init ==
    /\ clients = [u \in Users |-> NoConn]
    /\ users_db = [u \in Users |-> NoUser]
    /\ groups_db = [g \in Groups |-> NoGroup]
    /\ offline_messages = [u \in Users |-> <<>>]
    /\ friends = [u \in Users |-> {}]
    /\ sock = [c \in Conns |-> "closed"]
    /\ username = [c \in Conns |-> None]
    /\ sent = <<>>
    /\ last = Req("INIT", "-", "-", "-", "-")
    /\ FramingInit
    /\ ThreadsInit
    /\ ExtrasInit

\* ---------------------------------------------------------------- connections
\* start_server: accept() and a new handle_client thread.  A connection
\* identity is taken again only when no presence entry still refers to it.
Accept(c) ==
    /\ sock[c] = "closed"
    /\ \A u \in Users : clients[u] # c
    /\ sock' = [sock EXCEPT ![c] = "open"]
    /\ username' = [username EXCEPT ![c] = None]
    /\ sent' = <<>>
    /\ last' = Req("ACCEPT", c, "-", "-", "-")
    /\ UNCHANGED stores

\* The peer goes away; the handler has not noticed yet, writes to c raise.
PeerReset(c) ==
    /\ sock[c] = "open"
    /\ sock' = [sock EXCEPT ![c] = "broken"]
    /\ sent' = <<>>
    /\ last' = Req("RESET", c, "-", "-", "-")
    /\ UNCHANGED <<stores, username>>

\* handle_client's finally block.
finally_clients(c) ==
    IF username[c] # None /\ clients[username[c]] # NoConn
    THEN [clients EXCEPT ![username[c]] = NoConn]
    ELSE clients

\* recv_json raises ConnectionError (peer closed or reset): break, finally.
ConnectionLost(c) ==
    /\ sock[c] \in {"open", "broken"}
    /\ clients' = finally_clients(c)
    /\ sock' = [sock EXCEPT ![c] = "closed"]
    /\ username' = [username EXCEPT ![c] = None]
    /\ sent' = <<>>
    /\ last' = Req("CLOSE", c, "-", "-", "-")
    /\ UNCHANGED <<users_db, groups_db, offline_messages, friends>>

\* LOGOUT frame: break, finally.
Logout(c) ==
    /\ sock[c] = "open"
    /\ clients' = finally_clients(c)
    /\ sock' = [sock EXCEPT ![c] = "closed"]
    /\ username' = [username EXCEPT ![c] = None]
    /\ sent' = <<>>
    /\ last' = Req("LOGOUT", c, "-", "-", "-")
    /\ UNCHANGED <<users_db, groups_db, offline_messages, friends>>

\* ---------------------------------------------------------------- identity
user_groups(u) ==
    {g \in Groups : groups_db[g] # NoGroup /\ u \in SeqToSet(groups_db[g].members)}

RegisterSuccess(u) ==
    [Frame("REGISTER_SUCCESS", "-", "-") EXCEPT !.groups = user_groups(u)]

LoginSuccess(u) ==
    [Frame("LOGIN_SUCCESS", "-", "-") EXCEPT !.groups = user_groups(u)]

register_exists_never(name) == FALSE

register_exists(name) == users_db[name] # NoUser

handle_register(c, name, password) ==
    /\ sock[c] = "open"
    /\ last' = Req("REGISTER", c, name, "-", password)
    /\ IF register_exists(name)
       THEN /\ sent' = << Wr(c, Frame("REGISTER_ERROR", "-", "Username already exists")) >>
            /\ username' = [username EXCEPT ![c] = None]
            /\ UNCHANGED <<stores, sock>>
       ELSE /\ users_db' = [users_db EXCEPT ![name] = [password |-> password]]
            /\ clients' = [clients EXCEPT ![name] = c]
            /\ sent' = << Wr(c, RegisterSuccess(name)) >>
                         \o send_offline_messages_writes(offline_messages, name, c)
            /\ offline_messages' = send_offline_messages_queue(offline_messages, name, c)
            /\ username' = [username EXCEPT ![c] = name]
            /\ UNCHANGED <<groups_db, friends, sock>>

login_known(name) == users_db[name] # NoUser

login_password_any(name, password) == TRUE

login_password_ok(name, password) == users_db[name].password = password

handle_login(c, name, password) ==
    /\ sock[c] = "open"
    /\ last' = Req("LOGIN", c, name, "-", password)
    /\ IF ~login_known(name)
       THEN /\ sent' = << Wr(c, Frame("LOGIN_ERROR", "-", "User not found")) >>
            /\ username' = [username EXCEPT ![c] = None]
            /\ UNCHANGED <<stores, sock>>
       ELSE IF ~login_password_ok(name, password)
       THEN /\ sent' = << Wr(c, Frame("LOGIN_ERROR", "-", "Invalid password")) >>
            /\ username' = [username EXCEPT ![c] = None]
            /\ UNCHANGED <<stores, sock>>
       ELSE /\ clients' = [clients EXCEPT ![name] = c]
            /\ sent' = << Wr(c, LoginSuccess(name)) >>
                         \o send_offline_messages_writes(offline_messages, name, c)
            /\ offline_messages' = send_offline_messages_queue(offline_messages, name, c)
            /\ username' = [username EXCEPT ![c] = name]
            /\ UNCHANGED <<users_db, groups_db, friends, sock>>

\* ---------------------------------------------------------------- friends
handle_friend_request(c, from_user, to_user) ==
    /\ sock[c] = "open"
    /\ last' = Req("FRIEND_REQUEST", c, from_user, to_user, "-")
    /\ IF users_db[to_user] = NoUser
       THEN /\ sent' = << Wr(c, Frame("FRIEND_REQUEST_ERROR", "-", "User not found")) >>
            /\ UNCHANGED offline_messages
       ELSE /\ sent' = route_writes(to_user, Frame("FRIEND_REQUEST", from_user, "-"))
            /\ offline_messages' = route_queue(offline_messages, to_user,
                                               Frame("FRIEND_REQUEST", from_user, "-"))
    /\ QueueBounded(offline_messages')
    /\ UNCHANGED <<clients, users_db, groups_db, friends, sock, username>>

handle_friend_request_response(c, from_user, to_user, accepted) ==
    /\ sock[c] = "open"
    /\ last' = Req("FRIEND_REQUEST_RESPONSE", c, from_user, to_user,
                   IF accepted THEN "accepted" ELSE "declined")
    /\ IF accepted
       THEN /\ friends' = add_friend_relationship(friends, from_user, to_user)
            /\ sent' = route_writes(to_user, Frame("FRIEND_REQUEST_ACCEPTED", from_user, "-"))
                         \o << Wr(c, Frame("FRIEND_ADDED", "-", to_user)) >>
            /\ offline_messages' = route_queue(offline_messages, to_user,
                                               Frame("FRIEND_REQUEST_ACCEPTED", from_user, "-"))
       ELSE /\ friends' = friends
            /\ sent' = route_writes(to_user, Frame("FRIEND_REQUEST_DECLINED", from_user, "-"))
            /\ offline_messages' = route_queue(offline_messages, to_user,
                                               Frame("FRIEND_REQUEST_DECLINED", from_user, "-"))
    /\ QueueBounded(offline_messages')
    /\ UNCHANGED <<clients, users_db, groups_db, sock, username>>

handle_unfriend(c, from_user, target_user) ==
    /\ sock[c] = "open"
    /\ last' = Req("UNFRIEND", c, from_user, target_user, "-")
    /\ friends' = remove_friend_relationship(friends, from_user, target_user)
    /\ sent' = << Wr(c, Frame("UNFRIEND_SUCCESS", "-", target_user)) >>
                 \o route_writes(target_user, Frame("UNFRIENDED_BY", from_user, "-"))
    /\ UNCHANGED <<clients, users_db, groups_db, offline_messages, sock, username>>

\* ---------------------------------------------------------------- direct messages
\* "Check if users are friends": to_user in load_friends(from_user).
are_friends_any(from_user, to_user) == TRUE

are_friends(from_user, to_user) == to_user \in load_friends(from_user)

NotFriends(to_user) == Frame("MESSAGE_ERROR", "-", to_user)

\* The body shared by handle_private_message and handle_media_message; kind is
\* the frame type, payload the msg text or the (filename, data) of the file.
route_direct(c, kind, from_user, to_user, payload) ==
    IF ~are_friends(from_user, to_user)
    THEN /\ sent' = << Wr(c, NotFriends(to_user)) >>
         /\ UNCHANGED offline_messages
    ELSE /\ sent' = route_writes(to_user, Frame(kind, from_user, payload))
         /\ offline_messages' = route_queue(offline_messages, to_user,
                                            Frame(kind, from_user, payload))

handle_private_message(c, from_user, to_user, msg_text) ==
    /\ sock[c] = "open"
    /\ last' = Req("PRIVATE_MESSAGE", c, from_user, to_user, msg_text)
    /\ route_direct(c, "PRIVATE_MESSAGE", from_user, to_user, msg_text)
    /\ QueueBounded(offline_messages')
    /\ UNCHANGED <<clients, users_db, groups_db, friends, sock, username>>

\* A PRIVATE_MESSAGE frame without one of 'from', 'to', 'msg': message[...]
\* raises KeyError before anything is done, and the handler's except clause
\* only prints.  handle_client then reads the next frame.
handle_private_message_except(c) ==
    /\ sock[c] = "open"
    /\ last' = Req("BAD_SHAPE", c, "-", "-", "PRIVATE_MESSAGE")
    /\ sent' = <<>>
    /\ UNCHANGED <<stores, sock, username>>

handle_media_message(c, from_user, to_user, filedata) ==
    /\ sock[c] = "open"
    /\ last' = Req("MEDIA", c, from_user, to_user, filedata)
    /\ route_direct(c, "MEDIA", from_user, to_user, filedata)
    /\ QueueBounded(offline_messages')
    /\ UNCHANGED <<clients, users_db, groups_db, friends, sock, username>>

\* ---------------------------------------------------------------- groups
list_remove_none(s, x) == s

RECURSIVE list_remove(_, _)
\* list.remove(x): drops the first occurrence.
list_remove(s, x) ==
    IF s = <<>> THEN <<>>
    ELSE IF Head(s) = x THEN Tail(s)
    ELSE <<Head(s)>> \o list_remove(Tail(s), x)

group_exists_never(g) == FALSE

group_exists(g) == groups_db[g] # NoGroup

is_member_never(g, u) == FALSE

is_member_any(g, u) == TRUE

is_member(g, u) == u \in SeqToSet(groups_db[g].members)

handle_create_group(c, group_name, creator, description) ==
    /\ sock[c] = "open"
    /\ last' = Req("CREATE_GROUP", c, creator, group_name, description)
    /\ IF group_exists(group_name)
       THEN /\ sent' = << Wr(c, Frame("CREATE_GROUP_ERROR", "-", "Group already exists")) >>
            /\ UNCHANGED groups_db
       ELSE /\ groups_db' = [groups_db EXCEPT ![group_name] =
                                [admin |-> creator, members |-> <<creator>>,
                                 description |-> description]]
            /\ sent' = << Wr(c, Frame("CREATE_GROUP_SUCCESS", "-", group_name)) >>
    /\ UNCHANGED <<clients, users_db, offline_messages, friends, sock, username>>

handle_group_invite(c, from_user, to_user, group_name) ==
    /\ sock[c] = "open"
    /\ last' = Req("GROUP_INVITE", c, from_user, to_user, group_name)
    /\ IF ~group_exists(group_name)
       THEN /\ sent' = << Wr(c, Frame("GROUP_INVITE_ERROR", "-", "Group does not exist")) >>
            /\ UNCHANGED offline_messages
       ELSE IF ~is_member(group_name, from_user)
       THEN /\ sent' = << Wr(c, Frame("GROUP_INVITE_ERROR", "-", "You are not a member of this group")) >>
            /\ UNCHANGED offline_messages
       ELSE IF users_db[to_user] = NoUser
       THEN /\ sent' = << Wr(c, Frame("GROUP_INVITE_ERROR", "-", "User not found")) >>
            /\ UNCHANGED offline_messages
       ELSE IF is_member(group_name, to_user)
       THEN /\ sent' = << Wr(c, Frame("GROUP_INVITE_ERROR", "-", "User is already a member of this group")) >>
            /\ UNCHANGED offline_messages
       ELSE /\ sent' = route_writes(to_user, Frame("GROUP_INVITE", from_user, group_name))
            /\ offline_messages' = route_queue(offline_messages, to_user,
                                               Frame("GROUP_INVITE", from_user, group_name))
    /\ QueueBounded(offline_messages')
    /\ UNCHANGED <<clients, users_db, groups_db, friends, sock, username>>

\* "if inviter and inviter in self.clients: try send_json except print"
notify_inviter(inviter, frame) ==
    IF inviter # None /\ IsOnline(inviter) /\ send_json_ok(clients[inviter])
    THEN << Wr(clients[inviter], frame) >>
    ELSE << >>

members_append(g, u) == [groups_db EXCEPT ![g].members = Append(@, u)]

handle_group_invite_response(c, from_user, group_name, accepted, inviter) ==
    /\ sock[c] = "open"
    /\ last' = Req(IF accepted THEN "GROUP_INVITE_ACCEPT" ELSE "GROUP_INVITE_DECLINE",
                   c, from_user, inviter, group_name)
    /\ IF accepted
       THEN IF group_exists(group_name)
            THEN IF ~is_member(group_name, from_user)
                 THEN /\ groups_db' = members_append(group_name, from_user)
                      /\ sent' = << Wr(c, Frame("GROUP_JOIN_SUCCESS", "-", group_name)) >>
                                   \o notify_inviter(inviter,
                                          Frame("GROUP_INVITE_ACCEPTED", from_user, group_name))
                 ELSE /\ sent' = << Wr(c, Frame("GROUP_INVITE_ERROR", "-",
                                                "You are already a member of this group")) >>
                      /\ UNCHANGED groups_db
            ELSE /\ sent' = << Wr(c, Frame("GROUP_INVITE_ERROR", "-", "Group no longer exists")) >>
                 /\ UNCHANGED groups_db
       ELSE /\ sent' = notify_inviter(inviter,
                           Frame("GROUP_INVITE_DECLINED", from_user, group_name))
            /\ UNCHANGED groups_db
    /\ UNCHANGED <<clients, users_db, offline_messages, friends, sock, username>>

handle_join_group(c, group_name, user) ==
    /\ sock[c] = "open"
    /\ last' = Req("JOIN_GROUP", c, user, "-", group_name)
    /\ IF ~group_exists(group_name)
       THEN /\ sent' = << Wr(c, Frame("JOIN_GROUP_ERROR", "-", "Group does not exist")) >>
            /\ UNCHANGED groups_db
       ELSE IF is_member(group_name, user)
       THEN /\ sent' = << Wr(c, Frame("JOIN_GROUP_ERROR", "-",
                                      "You are already a member of this group")) >>
            /\ UNCHANGED groups_db
       ELSE /\ groups_db' = members_append(group_name, user)
            /\ sent' = << Wr(c, Frame("GROUP_JOIN_SUCCESS", "-", group_name)) >>
    /\ UNCHANGED <<clients, users_db, offline_messages, friends, sock, username>>

leave_group_no_transfer(gdb, group_name, user) ==
    LET members == list_remove(gdb[group_name].members, user)
    IN  IF members = <<>>
        THEN [gdb EXCEPT ![group_name] = NoGroup]
        ELSE [gdb EXCEPT ![group_name].members = members]

\* The roster after `user` has been removed from group_name (lines 987-997).
leave_group(gdb, group_name, user) ==
    LET members == list_remove(gdb[group_name].members, user)
    IN  IF members = <<>>
        THEN [gdb EXCEPT ![group_name] = NoGroup]
        ELSE IF gdb[group_name].admin = user
        THEN [gdb EXCEPT ![group_name].members = members,
                         ![group_name].admin = members[1]]
        ELSE [gdb EXCEPT ![group_name].members = members]

handle_leave_group(c, group_name, user) ==
    /\ sock[c] = "open"
    \* `to` records the group's admin before the step
    /\ last' = Req("LEAVE_GROUP", c, user, groups_db[group_name].admin, group_name)
    /\ IF ~group_exists(group_name)
       THEN /\ sent' = << Wr(c, Frame("LEAVE_GROUP_ERROR", "-", "Group does not exist")) >>
            /\ UNCHANGED groups_db
       ELSE IF ~is_member(group_name, user)
       THEN /\ sent' = << Wr(c, Frame("LEAVE_GROUP_ERROR", "-",
                                      "You are not a member of this group")) >>
            /\ UNCHANGED groups_db
       ELSE /\ groups_db' = leave_group(groups_db, group_name, user)
            /\ sent' = << Wr(c, Frame("LEAVE_GROUP_SUCCESS", "-", group_name)) >>
    /\ UNCHANGED <<clients, users_db, offline_messages, friends, sock, username>>

\* The frame a group handler broadcasts: kind, sender, group and payload.
GroupFrame(kind, from_user, group_name, payload) ==
    [Frame(kind, from_user, payload) EXCEPT !.groups = {group_name}]

RECURSIVE broadcast_members(_, _, _)
\* The loop of broadcast_to_group over the members list: one write for each
\* member other than exclude_user that is in self.clients and whose socket
\* takes the write; a failed write is only logged.
broadcast_members(members, message, exclude_user) ==
    IF members = <<>> THEN <<>>
    ELSE (IF Head(members) # exclude_user /\ Delivered(Head(members))
          THEN << Wr(clients[Head(members)], message) >>
          ELSE << >>)
         \o broadcast_members(Tail(members), message, exclude_user)

broadcast_to_group(group_name, message, exclude_user) ==
    IF ~group_exists(group_name) THEN <<>>
    ELSE broadcast_members(groups_db[group_name].members, message, exclude_user)

\* The body shared by handle_group_message and handle_group_media.
route_group(c, kind, from_user, group_name, payload) ==
    IF ~group_exists(group_name)
    THEN sent' = << Wr(c, Frame("MESSAGE_ERROR", "-", "Group does not exist")) >>
    ELSE IF ~is_member(group_name, from_user)
    THEN sent' = << Wr(c, Frame("MESSAGE_ERROR", "-", "You are not a member")) >>
    ELSE sent' = broadcast_to_group(group_name,
                     GroupFrame(kind, from_user, group_name, payload), from_user)

handle_group_message(c, from_user, group_name, msg_text) ==
    /\ sock[c] = "open"
    /\ last' = Req("GROUP_MESSAGE", c, from_user, group_name, msg_text)
    /\ route_group(c, "GROUP_MESSAGE", from_user, group_name, msg_text)
    /\ UNCHANGED <<stores, sock, username>>

handle_group_media(c, from_user, group_name, filedata) ==
    /\ sock[c] = "open"
    /\ last' = Req("GROUP_MEDIA", c, from_user, group_name, filedata)
    /\ route_group(c, "GROUP_MEDIA", from_user, group_name, filedata)
    /\ UNCHANGED <<stores, sock, username>>

\* ---------------------------------------------------------------- byte strings
\* A byte string is a list of runs [b, n] (n >= 1 copies of the byte b) in
\* which neighbouring runs carry different bytes: equal strings are equal
\* lists, and a payload of 10^8 bytes is one run.
Run(b, n) == [b |-> b, n |-> n]

RECURSIVE BLen(_)
\* len(s)
BLen(s) == IF s = <<>> THEN 0 ELSE Head(s).n + BLen(Tail(s))

\* s + t
BCat(s, t) ==
    IF s = <<>> THEN t
    ELSE IF t = <<>> THEN s
    ELSE IF s[Len(s)].b = t[1].b
    THEN SubSeq(s, 1, Len(s) - 1) \o << Run(t[1].b, s[Len(s)].n + t[1].n) >> \o Tail(t)
    ELSE s \o t

RECURSIVE BTake(_, _)
\* the first k bytes of s: what sock.recv hands over
BTake(s, k) ==
    IF k <= 0 \/ s = <<>> THEN <<>>
    ELSE IF Head(s).n <= k THEN BCat(<< Head(s) >>, BTake(Tail(s), k - Head(s).n))
    ELSE << Run(Head(s).b, k) >>

RECURSIVE BDrop(_, _)
\* s without its first k bytes: what stays in the socket buffer
BDrop(s, k) ==
    IF k <= 0 \/ s = <<>> THEN s
    ELSE IF Head(s).n <= k THEN BDrop(Tail(s), k - Head(s).n)
    ELSE << Run(Head(s).b, Head(s).n - k) >> \o Tail(s)

RECURSIVE FromChars(_)
\* the byte string of a list of one-byte characters
FromChars(cs) ==
    IF cs = <<>> THEN <<>> ELSE BCat(<< Run(Head(cs), 1) >>, FromChars(Tail(cs)))

RECURSIVE Chars(_)
\* bytes.decode('utf-8') of an ASCII string: its characters, one by one
Chars(s) ==
    IF s = <<>> THEN <<>>
    ELSE [i \in 1..Head(s).n |-> Head(s).b] \o Chars(Tail(s))

\* ---------------------------------------------------------------- decimal header
HeaderLen == 8          \* bytes of the length header

DigitChars == << "0", "1", "2", "3", "4", "5", "6", "7", "8", "9" >>

IsDigit(ch) == \E d \in 1..Len(DigitChars) : DigitChars[d] = ch

DigitVal(ch) == (CHOOSE d \in 1..Len(DigitChars) : DigitChars[d] = ch) - 1

RECURSIVE Decimal(_)
\* str(n) for n >= 0
Decimal(n) ==
    IF n < Len(DigitChars) THEN << DigitChars[n + 1] >>
    ELSE Decimal(n \div Len(DigitChars)) \o << DigitChars[(n % Len(DigitChars)) + 1] >>

format_unpadded(n) == Decimal(n)

\* f'{n:08d}': zero-padded to at least eight digits, longer when n needs more.
format_08d(n) ==
    LET d == Decimal(n)
    IN  IF Len(d) >= HeaderLen THEN d
        ELSE [i \in 1..(HeaderLen - Len(d)) |-> "0"] \o d

RECURSIVE DecimalValue(_)
DecimalValue(cs) ==
    IF cs = <<>> THEN 0
    ELSE DecimalValue(SubSeq(cs, 1, Len(cs) - 1)) * Len(DigitChars) + DigitVal(cs[Len(cs)])

RECURSIVE lstrip(_)
lstrip(cs) == IF cs # <<>> /\ Head(cs) = " " THEN lstrip(Tail(cs)) ELSE cs

RECURSIVE rstrip(_)
rstrip(cs) ==
    IF cs # <<>> /\ cs[Len(cs)] = " " THEN rstrip(SubSeq(cs, 1, Len(cs) - 1)) ELSE cs

\* Python's int(str): surrounding whitespace is stripped and one sign is
\* allowed before the digits; anything else raises ValueError.
int_digits(cs) ==
    LET t == rstrip(lstrip(cs))
    IN  IF t # <<>> /\ t[1] \in {"+", "-"} THEN Tail(t) ELSE t

int_ok(cs) ==
    /\ int_digits(cs) # <<>>
    /\ \A i \in 1..Len(int_digits(cs)) : IsDigit(int_digits(cs)[i])

int_value(cs) ==
    LET t == rstrip(lstrip(cs))
    IN  IF t[1] = "-" THEN 0 - DecimalValue(int_digits(cs)) ELSE DecimalValue(int_digits(cs))

\* ---------------------------------------------------------------- JSON text
\* Message objects of the framed connection.  The JSON text of an object is
\* abbreviated: one byte per brace, one for the type, one for each field
\* value, and the base64 `data` of a MEDIA message as a run of `size` bytes.
Obj(type, a1, a2, size) == [type |-> type, a1 |-> a1, a2 |-> a2, size |-> size]

NoObj == Obj("-", "-", "-", 0)

BigData == 99999995     \* data bytes of the MEDIA message whose JSON text has 10^8 bytes

Ping == Obj("PING", "-", "-", 0)
LogoutMsg == Obj("LOGOUT", "-", "-", 0)
Unknown == Obj("NOPE", "-", "-", 0)
RegisterMsg == Obj("REGISTER", "a", "p", 0)
Media(size) == Obj("MEDIA", "a", "b", size)

PlainObjs == {Ping, LogoutMsg, Unknown, RegisterMsg}
WireObjs == PlainObjs \cup {Media(1), Media(BigData)}

TypeByte(type) ==
    CASE type = "PING" -> "P"
      [] type = "LOGOUT" -> "L"
      [] type = "REGISTER" -> "R"
      [] type = "MEDIA" -> "M"
      [] type = "PONG" -> "O"
      [] OTHER -> "X"

\* json.dumps(obj).encode('utf-8')
json_dumps(obj) ==
    CASE obj.type \in {"REGISTER"} ->
             FromChars(<< "{", TypeByte(obj.type), obj.a1, obj.a2, "}" >>)
      [] obj.type = "MEDIA" ->
             BCat(BCat(FromChars(<< "{", "M", obj.a1, obj.a2 >>), << Run("x", obj.size) >>),
                  FromChars(<< "}" >>))
      [] OTHER -> FromChars(<< "{", TypeByte(obj.type), "}" >>)

\* json.loads(data.decode('utf-8')): the object whose text data is; it raises
\* JSONDecodeError when there is none.
IsMediaText(d) ==
    /\ Len(d) = 6
    /\ BTake(d, 4) = FromChars(<< "{", "M", "a", "b" >>)
    /\ d[5].b = "x"
    /\ d[6] = Run("}", 1)

json_loads_ok(d) ==
    \/ \E obj \in PlainObjs : json_dumps(obj) = d
    \/ IsMediaText(d)

json_loads(d) ==
    IF IsMediaText(d) THEN Media(d[5].n)
    ELSE CHOOSE obj \in PlainObjs : json_dumps(obj) = d

\* send_json: the bytes handed to sock.sendall.
send_json_bytes(obj) ==
    BCat(FromChars(format_08d(BLen(json_dumps(obj)))), json_dumps(obj))

\* ---------------------------------------------------------------- framed connection
\* recv_json and the loop of handle_client, one sock.recv call per step, on the
\* connection Framed; its peer writes whole frames, broken frames, and closes.
MaxFrames == 2      \* frames the peer writes
MaxLog == 3         \* recv_json calls of the handler that are followed
MaxChunk == 8       \* a recv returns at most MaxChunk bytes less than it could

Framed == "c1"

Outcome(res, obj) == [res |-> res, obj |-> obj]

Written(kind, obj, bytes) == [kind |-> kind, obj |-> obj, bytes |-> bytes]

\* The sizes a sock.recv(want) call can return while bytes are buffered: any
\* number from 1 to min(want, buffered) that is within MaxChunk of that minimum.
recv_sizes(want) ==
    LET m == IF want <= BLen(wire) THEN want ELSE BLen(wire)
    IN  (IF m - MaxChunk >= 1 THEN m - MaxChunk ELSE 1)..m

header_complete_any(lb) == TRUE

\* "while len(length_bytes) < 8" has ended
header_complete(lb) == BLen(lb) >= HeaderLen

length == int_value(Chars(length_bytes))

\* "while len(data) < length" has ended
data_complete(d, len) == BLen(d) >= len

except_clause_break(error) == "done"

\* handle_client: "except ConnectionError: break" leaves the loop, "except
\* Exception: continue" calls recv_json again.
except_clause(error) == IF error = "ConnectionError" THEN "done" ELSE "header"

recv_header ==
    /\ pc = "header"
    /\ sock[Framed] = "open"
    /\ Len(log) < MaxLog
    /\ \E k \in recv_sizes(HeaderLen - BLen(length_bytes)) :
       /\ wire' = BDrop(wire, k)
       /\ LET lb == BCat(length_bytes, BTake(wire, k))
          IN  IF ~header_complete(lb)
              THEN /\ length_bytes' = lb
                   /\ UNCHANGED <<pc, data, log>>
              ELSE IF ~int_ok(Chars(lb))
              \* int() raises ValueError; handle_client: except Exception: continue
              THEN /\ length_bytes' = <<>>
                   /\ log' = Append(log, Outcome("ValueError", NoObj))
                   /\ pc' = except_clause("ValueError")
                   /\ data' = data
              ELSE /\ length_bytes' = lb
                   /\ data' = <<>>
                   /\ pc' = IF data_complete(<<>>, int_value(Chars(lb)))
                            THEN "dispatch" ELSE "data"
                   /\ log' = log
    /\ UNCHANGED <<stores, sock, username, sent, last, peer_closed, written>>

recv_data ==
    /\ pc = "data"
    /\ sock[Framed] = "open"
    /\ \E k \in recv_sizes(length - BLen(data)) :
          /\ wire' = BDrop(wire, k)
          /\ data' = BCat(data, BTake(wire, k))
    /\ pc' = IF data_complete(data', length) THEN "dispatch" ELSE "data"
    /\ UNCHANGED <<stores, sock, username, sent, last, peer_closed, written,
                   length_bytes, log>>

\* sock.recv returns b'': ConnectionError, break, finally.
recv_closed ==
    /\ pc \in {"header", "data"}
    /\ Len(log) < MaxLog
    /\ wire = <<>>
    /\ peer_closed
    /\ ConnectionLost(Framed)
    /\ pc' = except_clause("ConnectionError")
    /\ log' = Append(log, Outcome("ConnectionError", NoObj))
    /\ UNCHANGED <<wire, peer_closed, length_bytes, data, written>>

\* json.loads of the payload, then the dispatch on message.get('type').
dispatch ==
    /\ pc = "dispatch"
    /\ sock[Framed] = "open"
    /\ length_bytes' = <<>>
    /\ data' = <<>>
    /\ UNCHANGED <<wire, peer_closed, written>>
    /\ IF ~json_loads_ok(data)
       \* JSONDecodeError; handle_client: except Exception: continue
       THEN /\ log' = Append(log, Outcome("JSONDecodeError", NoObj))
            /\ pc' = except_clause("JSONDecodeError")
            /\ sent' = <<>>
            /\ last' = Req("RECV_ERROR", Framed, "-", "-", "-")
            /\ UNCHANGED <<stores, sock, username>>
       ELSE LET message == json_loads(data)
            IN  /\ log' = Append(log, Outcome("message", message))
                /\ pc' = IF message.type = "LOGOUT" THEN "done" ELSE "header"
                /\ CASE message.type = "REGISTER" ->
                            handle_register(Framed, message.a1, message.a2)
                     [] message.type = "MEDIA" ->
                            handle_media_message(Framed, message.a1, message.a2, "m1")
                     [] message.type = "LOGOUT" -> Logout(Framed)
                     [] message.type = "PING" ->
                            /\ sent' = << Wr(Framed, Frame("PONG", "-", "-")) >>
                            /\ last' = Req("PING", Framed, "-", "-", "-")
                            /\ UNCHANGED <<stores, sock, username>>
                     [] OTHER ->
                            \* "Unknown message type": printed only
                            /\ sent' = <<>>
                            /\ last' = Req("UNKNOWN", Framed, "-", "-", "-")
                            /\ UNCHANGED <<stores, sock, username>>

\* The peer (a client using the same send_json) writes one message.
peer_send(obj) ==
    /\ sock[Framed] = "open"
    /\ ~peer_closed
    /\ Len(written) < MaxFrames
    /\ wire' = BCat(wire, send_json_bytes(obj))
    /\ written' = Append(written, Written("json", obj, send_json_bytes(obj)))
    /\ UNCHANGED <<stores, sock, username, sent, last, peer_closed, pc,
                   length_bytes, data, log>>

\* Frames no send_json produces: a payload that is not JSON, a header with a
\* byte that is not a digit, a header int() accepts although it has a sign,
\* and a header announcing more than a million bytes.
NotJson == BCat(FromChars(format_08d(3)), FromChars(<< "{", "P", "x" >>))
BadHeader == BCat(FromChars(<< "0", "0", "0", "0", "0", "0", "0", "x" >>), json_dumps(Ping))
SignedHeader == BCat(FromChars(<< "+", "0", "0", "0", "0", "0", "0", "3" >>), json_dumps(Ping))
HugeHeader == FromChars(<< "0", "1", "0", "0", "0", "0", "0", "1" >>)

RawFrames == {NotJson, BadHeader, SignedHeader, HugeHeader}

peer_send_raw(bytes) ==
    /\ sock[Framed] = "open"
    /\ ~peer_closed
    /\ Len(written) < MaxFrames
    /\ wire' = BCat(wire, bytes)
    /\ written' = Append(written, Written("raw", NoObj, bytes))
    /\ UNCHANGED <<stores, sock, username, sent, last, peer_closed, pc,
                   length_bytes, data, log>>

\* The peer dies k bytes into writing a frame.
peer_send_cut(obj, k) ==
    /\ sock[Framed] = "open"
    /\ ~peer_closed
    /\ Len(written) < MaxFrames
    /\ k \in 1..(BLen(send_json_bytes(obj)) - 1)
    /\ wire' = BCat(wire, BTake(send_json_bytes(obj), k))
    /\ written' = Append(written, Written("cut", obj, BTake(send_json_bytes(obj), k)))
    /\ peer_closed' = TRUE
    /\ UNCHANGED <<stores, sock, username, sent, last, pc, length_bytes, data, log>>

peer_close ==
    /\ sock[Framed] = "open"
    /\ ~peer_closed
    /\ peer_closed' = TRUE
    /\ UNCHANGED <<stores, sock, username, sent, last, wire, pc, length_bytes,
                   data, log, written>>

\* ---------------------------------------------------------------- handlers step by step
\* The handlers below are the ones above cut at the points where another
\* handler thread can run in between: a handler takes self.lock, looks a
\* recipient up in self.clients, writes to a socket, appends to or clears an
\* offline queue in separate steps.  thread[c] holds the locals it carries.
MaxPending == 2   \* most messages queued or on their way to a queue, per user

RoutedKinds ==
    {"PRIVATE_MESSAGE", "MEDIA", "FRIEND_REQUEST", "FRIEND_REQUEST_ACCEPTED",
     "FRIEND_REQUEST_DECLINED", "GROUP_INVITE"}

TheGroup == CHOOSE g \in Groups : TRUE

RoutedFrame(kind, from_user) ==
    Frame(kind, from_user,
          IF kind \in {"PRIVATE_MESSAGE", "MEDIA"} THEN "m1"
          ELSE IF kind = "GROUP_INVITE" THEN TheGroup ELSE "-")

\* The checks each routed handler makes before it looks the recipient up.
route_allowed(kind, from_user, to_user) ==
    IF kind \in {"PRIVATE_MESSAGE", "MEDIA"} THEN are_friends(from_user, to_user)
    ELSE IF kind = "FRIEND_REQUEST" THEN users_db[to_user] # NoUser
    ELSE IF kind = "GROUP_INVITE"
    THEN /\ group_exists(TheGroup)
         /\ is_member(TheGroup, from_user)
         /\ users_db[to_user] # NoUser
         /\ ~is_member(TheGroup, to_user)
    ELSE TRUE

route_error(kind) ==
    IF kind \in {"PRIVATE_MESSAGE", "MEDIA"} THEN "MESSAGE_ERROR"
    ELSE IF kind = "GROUP_INVITE" THEN "GROUP_INVITE_ERROR"
    ELSE "FRIEND_REQUEST_ERROR"

\* Messages for to_user that are queued or that a handler is carrying.
Pending(to_user) ==
    Len(offline_messages[to_user])
      + Cardinality({c \in Conns : /\ thread[c].pc \in {"send", "store", "create", "append"}
                                  /\ thread[c].to = to_user})

\* "if to_user in self.clients:" of a routed handler, after its checks.
route_lookup(c, kind, from_user, to_user) ==
    /\ sock[c] = "open"
    /\ thread[c].pc = "idle"
    /\ last' = Req(kind, c, from_user, to_user, "-")
    /\ IF ~route_allowed(kind, from_user, to_user)
       THEN /\ sent' = << Wr(c, Frame(route_error(kind), "-", "-")) >>
            /\ UNCHANGED <<friends, thread>>
       ELSE /\ friends' = IF kind = "FRIEND_REQUEST_ACCEPTED"
                          THEN add_friend_relationship(friends, from_user, to_user)
                          ELSE friends
            /\ sent' = <<>>
            /\ thread' = [thread EXCEPT ![c] =
                            [Idle EXCEPT !.pc = IF IsOnline(to_user) THEN "send" ELSE "store",
                                         !.to = to_user,
                                         !.frame = RoutedFrame(kind, from_user),
                                         !.why = IF IsOnline(to_user) THEN "-" ELSE "offline"]]
    /\ UNCHANGED <<clients, users_db, groups_db, offline_messages, sock, username, lock>>

\* The notification the accepting user gets on its own connection once the
\* requester has been served.
route_tail(c, frame, to_user) ==
    IF frame.type = "FRIEND_REQUEST_ACCEPTED" /\ send_json_ok(c)
    THEN << Wr(c, Frame("FRIEND_ADDED", "-", to_user)) >>
    ELSE << >>

route_except_drop == "idle"

\* "except Exception as e: ... self.store_offline_message(to_user, {...})"
route_except == "store"

\* "try: self.send_json(self.clients[to_user], {...})": KeyError when the
\* presence entry is gone, OSError when the socket does not take the write.
route_send(c) ==
    /\ thread[c].pc = "send"
    /\ LET to_user == thread[c].to
           frame == thread[c].frame
           why == IF IsOnline(to_user) THEN "OSError" ELSE "KeyError"
       IN  IF Delivered(to_user)
           THEN /\ sent' = << Wr(clients[to_user], frame) >> \o route_tail(c, frame, to_user)
                /\ thread' = [thread EXCEPT ![c] = Idle]
                /\ last' = Req("SEND", c, frame.from, to_user, "-")
           ELSE /\ sent' = <<>>
                /\ thread' = [thread EXCEPT ![c] =
                                IF route_except = "store"
                                THEN [@ EXCEPT !.pc = "store", !.why = why]
                                ELSE Idle]
                /\ last' = Req("SEND", c, frame.from, to_user, why)
    /\ UNCHANGED <<stores, sock, username, lock>>

\* store_offline_message(to_user, {...}), from the else branch or the except
\* clause.
route_store(c) ==
    /\ thread[c].pc = "store"
    /\ LET to_user == thread[c].to
           frame == thread[c].frame
       IN  /\ offline_messages' = store_offline_message(offline_messages, to_user, frame)
           /\ sent' = route_tail(c, frame, to_user)
           /\ last' = Req("STORE", c, frame.from, to_user, thread[c].why)
    /\ thread' = [thread EXCEPT ![c] = Idle]
    /\ UNCHANGED <<clients, users_db, groups_db, friends, sock, username, lock>>

\* handle_login up to the call of send_offline_messages: "with self.lock:",
\* the two checks, self.clients[username] = client_socket, LOGIN_SUCCESS.
handle_login_enter(c, name, password) ==
    /\ sock[c] = "open"
    /\ thread[c].pc = "idle"
    /\ lock = NoConn
    /\ last' = Req("LOGIN", c, name, "-", password)
    /\ IF ~login_known(name)
       THEN /\ sent' = << Wr(c, Frame("LOGIN_ERROR", "-", "User not found")) >>
            /\ username' = [username EXCEPT ![c] = None]
            /\ UNCHANGED <<stores, sock, threads>>
       ELSE IF ~login_password_ok(name, password)
       THEN /\ sent' = << Wr(c, Frame("LOGIN_ERROR", "-", "Invalid password")) >>
            /\ username' = [username EXCEPT ![c] = None]
            /\ UNCHANGED <<stores, sock, threads>>
       ELSE /\ clients' = [clients EXCEPT ![name] = c]
            /\ sent' = << Wr(c, LoginSuccess(name)) >>
            /\ lock' = c
            /\ thread' = [thread EXCEPT ![c] = [Idle EXCEPT !.pc = "drain", !.to = name]]
            /\ UNCHANGED <<users_db, groups_db, offline_messages, friends, sock, username>>

send_offline_except_clear == "clear"

\* "except Exception as e: print(...)" of send_offline_messages: the
\* assignment of the empty list is skipped and the function returns.
send_offline_except == "idle"

\* send_offline_messages up to and including its send_json: messages is the
\* queue as it is when the batch is serialised.  With nothing queued, or when
\* the write raises, it returns, and handle_login returns and releases the lock.
send_offline_messages_send(c) ==
    /\ thread[c].pc = "drain"
    /\ LET u == thread[c].to
           written_ok == IsOnline(u) /\ send_json_ok(clients[u])
       IN  /\ last' = Req("DRAIN", c, "-", u, "-")
           /\ IF offline_messages[u] # <<>> /\ (written_ok \/ send_offline_except = "clear")
              THEN /\ sent' = IF written_ok
                              THEN << Wr(clients[u], OfflineBatch(offline_messages[u])) >>
                              ELSE << >>
                   /\ thread' = [thread EXCEPT ![c] =
                                   [@ EXCEPT !.pc = "clear",
                                             !.frame = OfflineBatch(offline_messages[u])]]
                   /\ UNCHANGED <<lock, username>>
              ELSE /\ sent' = <<>>
                   /\ thread' = [thread EXCEPT ![c] = Idle]
                   /\ lock' = NoConn
                   /\ username' = [username EXCEPT ![c] = u]
    /\ UNCHANGED <<stores, sock>>

\* "self.offline_messages[username] = []", then the returns.
send_offline_messages_clear(c) ==
    /\ thread[c].pc = "clear"
    /\ LET u == thread[c].to
       IN  /\ last' = Req("CLEAR", c, "-", u, "-")
           /\ offline_messages' = [offline_messages EXCEPT ![u] = <<>>]
           /\ username' = [username EXCEPT ![c] = u]
    /\ sent' = <<>>
    /\ thread' = [thread EXCEPT ![c] = Idle]
    /\ lock' = NoConn
    /\ UNCHANGED <<clients, users_db, groups_db, friends, sock>>

\* handle_group_invite_response up to "if inviter and inviter in self.clients:".
\* The accepted branch runs inside "with self.lock:".
invite_response_enter(c, from_user, group_name, accepted, inviter) ==
    /\ sock[c] = "open"
    /\ thread[c].pc = "idle"
    /\ accepted => lock = NoConn
    /\ last' = Req(IF accepted THEN "GROUP_INVITE_ACCEPT" ELSE "GROUP_INVITE_DECLINE",
                   c, from_user, inviter, group_name)
    /\ LET found == inviter # None /\ IsOnline(inviter)
           notify(kind) == [thread EXCEPT ![c] =
                              [Idle EXCEPT !.pc = "notify", !.to = inviter,
                                           !.frame = Frame(kind, from_user, group_name)]]
       IN  IF accepted
           THEN IF group_exists(group_name)
                THEN IF ~is_member(group_name, from_user)
                     THEN /\ groups_db' = members_append(group_name, from_user)
                          /\ sent' = << Wr(c, Frame("GROUP_JOIN_SUCCESS", "-", group_name)) >>
                          /\ IF found
                             THEN /\ lock' = c
                                  /\ thread' = notify("GROUP_INVITE_ACCEPTED")
                             ELSE UNCHANGED threads
                     ELSE /\ sent' = << Wr(c, Frame("GROUP_INVITE_ERROR", "-",
                                                    "You are already a member of this group")) >>
                          /\ UNCHANGED <<groups_db, threads>>
                ELSE /\ sent' = << Wr(c, Frame("GROUP_INVITE_ERROR", "-", "Group no longer exists")) >>
                     /\ UNCHANGED <<groups_db, threads>>
           ELSE /\ sent' = <<>>
                /\ UNCHANGED <<groups_db, lock>>
                /\ thread' = IF found THEN notify("GROUP_INVITE_DECLINED") ELSE thread
    /\ UNCHANGED <<clients, users_db, offline_messages, friends, sock, username>>

\* "try: self.send_json(self.clients[inviter], {...}) except: print", and the
\* end of the with block when the handler is in one.
invite_response_notify(c) ==
    /\ thread[c].pc = "notify"
    /\ sent' = notify_inviter(thread[c].to, thread[c].frame)
    /\ last' = Req("NOTIFY", c, thread[c].frame.from, thread[c].to, "-")
    /\ lock' = IF lock = c THEN NoConn ELSE lock
    /\ thread' = [thread EXCEPT ![c] = Idle]
    /\ UNCHANGED <<stores, sock, username>>

\* recv_json raises ConnectionError while the handler waits for a frame:
\* break, then the finally block, whose del runs inside "with self.lock:".
client_finally(c) ==
    /\ thread[c].pc = "idle"
    /\ finally_clients(c) # clients => lock = NoConn
    /\ ConnectionLost(c)
    /\ UNCHANGED threads

\* ---------------------------------------------------------------- friend files step by step
\* add_friend_relationship and remove_friend_relationship as their four file
\* accesses: load user1, load user2, save user1, save user2.  Neither the
\* functions nor their callers take self.lock.  thread[c].why is "accept"
\* inside handle_friend_request_response and "unfriend" inside handle_unfriend.
relationship_edit(why, user_friends, other) ==
    IF why = "accept" THEN user_friends \cup {other} ELSE user_friends \ {other}

\* The handler starts and reads the first file: user1_friends = load_friends(user1).
relationship_load1(c, why, from_user, other) ==
    /\ sock[c] = "open"
    /\ thread[c].pc = "idle"
    /\ from_user # None
    /\ last' = Req(IF why = "accept" THEN "FRIEND_REQUEST_RESPONSE" ELSE "UNFRIEND",
                   c, from_user, other, "load")
    /\ sent' = <<>>
    /\ thread' = [thread EXCEPT ![c] =
                    [Idle EXCEPT !.pc = "load2", !.why = why,
                                 !.user1 = from_user, !.user2 = other,
                                 !.user1_friends = load_friends(from_user)]]
    /\ UNCHANGED <<stores, sock, username, lock>>

\* user2_friends = load_friends(user2)
relationship_load2(c) ==
    /\ thread[c].pc = "load2"
    /\ thread' = [thread EXCEPT ![c] =
                    [@ EXCEPT !.pc = "save1", !.user2_friends = load_friends(thread[c].user2)]]
    /\ sent' = <<>>
    /\ last' = Req("LOAD_FRIENDS", c, thread[c].user1, thread[c].user2, "-")
    /\ UNCHANGED <<stores, sock, username, lock>>

\* save_friends(user1, user1_friends) with user2 added or discarded.
relationship_save1(c) ==
    /\ thread[c].pc = "save1"
    /\ friends' = [friends EXCEPT ![thread[c].user1] =
                     relationship_edit(thread[c].why, thread[c].user1_friends, thread[c].user2)]
    /\ thread' = [thread EXCEPT ![c] = [@ EXCEPT !.pc = "save2"]]
    /\ sent' = <<>>
    /\ last' = Req("SAVE_FRIENDS", c, thread[c].user1, thread[c].user2, "-")
    /\ UNCHANGED <<clients, users_db, groups_db, offline_messages, sock, username, lock>>

\* save_friends(user2, user2_friends) with user1 added or discarded, and the
\* rest of the calling handler: its notifications.
relationship_save2(c) ==
    /\ thread[c].pc = "save2"
    /\ LET from_user == thread[c].user1
           other == thread[c].user2
       IN  /\ friends' = [friends EXCEPT ![other] =
                            relationship_edit(thread[c].why, thread[c].user2_friends, from_user)]
           /\ last' = Req(IF thread[c].why = "accept" THEN "FRIEND_REQUEST_RESPONSE"
                          ELSE "UNFRIEND", c, from_user, other, "done")
           /\ IF thread[c].why = "accept"
              THEN /\ sent' = route_writes(other, Frame("FRIEND_REQUEST_ACCEPTED", from_user, "-"))
                                \o (IF send_json_ok(c)
                                    THEN << Wr(c, Frame("FRIEND_ADDED", "-", other)) >>
                                    ELSE << >>)
                   /\ offline_messages' = route_queue(offline_messages, other,
                                              Frame("FRIEND_REQUEST_ACCEPTED", from_user, "-"))
              ELSE /\ sent' = (IF send_json_ok(c)
                               THEN << Wr(c, Frame("UNFRIEND_SUCCESS", "-", other)) >>
                               ELSE << >>)
                                \o route_writes(other, Frame("UNFRIENDED_BY", from_user, "-"))
                   /\ UNCHANGED offline_messages
    /\ QueueBounded(offline_messages')
    /\ thread' = [thread EXCEPT ![c] = Idle]
    /\ UNCHANGED <<clients, users_db, groups_db, sock, username, lock>>

\* ---------------------------------------------------------------- store_offline_message step by step
\* store_offline_message as its three accesses to self.offline_messages: the
\* membership test, the assignment of a new list, the append.  No lock is
\* taken.  A handler gets here from the else branch or the except clause of
\* a routed handler (thread[c].pc = "store").
store_check(c) ==
    /\ thread[c].pc = "store"
    /\ thread' = [thread EXCEPT ![c] =
                    [@ EXCEPT !.pc = IF thread[c].to \notin queue_keys
                                     THEN "create" ELSE "append"]]
    /\ sent' = <<>>
    /\ last' = Req("STORE_CHECK", c, thread[c].frame.from, thread[c].to, "-")
    /\ UNCHANGED <<stores, sock, username, lock, extras>>

\* "self.offline_messages[username] = []"
store_create(c) ==
    /\ thread[c].pc = "create"
    /\ offline_messages' = [offline_messages EXCEPT ![thread[c].to] = <<>>]
    /\ queue_keys' = queue_keys \cup {thread[c].to}
    /\ thread' = [thread EXCEPT ![c] = [@ EXCEPT !.pc = "append"]]
    /\ sent' = <<>>
    /\ last' = Req("STORE_CREATE", c, thread[c].frame.from, thread[c].to, "-")
    /\ UNCHANGED <<clients, users_db, groups_db, friends, sock, username, lock, stream>>

\* "self.offline_messages[username].append(message)", the save, and the
\* rest of the calling handler.
store_append(c) ==
    /\ thread[c].pc = "append"
    /\ offline_messages' = store_offline_message(offline_messages, thread[c].to, thread[c].frame)
    /\ sent' = route_tail(c, thread[c].frame, thread[c].to)
    /\ last' = Req("STORE", c, thread[c].frame.from, thread[c].to, thread[c].why)
    /\ thread' = [thread EXCEPT ![c] = Idle]
    /\ UNCHANGED <<clients, users_db, groups_db, friends, sock, username, lock, extras>>

\* ---------------------------------------------------------------- handle_register step by step
with_lock_skipped == TRUE

\* "with self.lock:" can be entered.
with_lock == lock = NoConn

\* handle_client has read a REGISTER frame and calls handle_register, which
\* is about to enter "with self.lock:"; thread[c].why holds the password of
\* user_data.
register_dispatch(c, name, password) ==
    /\ sock[c] = "open"
    /\ thread[c].pc = "idle"
    /\ thread' = [thread EXCEPT ![c] =
                    [Idle EXCEPT !.pc = "register", !.to = name, !.why = password]]
    /\ sent' = <<>>
    /\ last' = Req("REGISTER_RECEIVED", c, name, "-", password)
    /\ UNCHANGED <<stores, sock, username, lock>>

\* "with self.lock: if username in self.users_db: ... return None"
register_check(c) ==
    /\ thread[c].pc = "register"
    /\ with_lock
    /\ IF register_exists(thread[c].to)
       THEN /\ sent' = << Wr(c, Frame("REGISTER_ERROR", "-", "Username already exists")) >>
            /\ last' = Req("REGISTER", c, thread[c].to, "-", thread[c].why)
            /\ username' = [username EXCEPT ![c] = None]
            /\ thread' = [thread EXCEPT ![c] = Idle]
            /\ UNCHANGED lock
       ELSE /\ sent' = <<>>
            /\ last' = Req("REGISTER_CHECK", c, thread[c].to, "-", thread[c].why)
            /\ lock' = c
            /\ thread' = [thread EXCEPT ![c] = [@ EXCEPT !.pc = "register_store"]]
            /\ UNCHANGED username
    /\ UNCHANGED <<stores, sock>>

\* self.users_db[username] = user_data, self.clients[username] =
\* client_socket, REGISTER_SUCCESS; send_offline_messages comes next.
register_store(c) ==
    /\ thread[c].pc = "register_store"
    /\ LET name == thread[c].to
       IN  /\ users_db' = [users_db EXCEPT ![name] = [password |-> thread[c].why]]
           /\ clients' = [clients EXCEPT ![name] = c]
           /\ sent' = << Wr(c, RegisterSuccess(name)) >>
           /\ last' = Req("REGISTER", c, name, "-", thread[c].why)
           /\ thread' = [thread EXCEPT ![c] = [Idle EXCEPT !.pc = "drain", !.to = name]]
    /\ UNCHANGED <<groups_db, offline_messages, friends, sock, username, lock>>

\* ---------------------------------------------------------------- sendall step by step
\* send_json(sock, obj) as the loop inside sock.sendall: each send() call
\* hands over a first part of the bytes that are left, and other threads run
\* between the calls.  send_json takes no lock, and no caller holds one per
\* socket.  stream collects what reaches the connection Framed.
MaxStream == 25     \* bytes written to the framed connection: one frame of each handler

Pong == Obj("PONG", "-", "-", 0)

\* The sizes a send() call can take while n bytes are left.
send_sizes(n) == (IF n - MaxChunk >= 1 THEN n - MaxChunk ELSE 1)..n

\* Bytes written to Framed or still to be written to it.
StreamDue ==
    LET left(c) == IF thread[c].pc = "sendall" THEN BLen(thread[c].rest) ELSE 0
        other == CHOOSE c \in Conns : c # Framed
    IN  BLen(stream) + left(Framed) + left(other)

sendall_enter(c, dest, obj, frame) ==
    [thread EXCEPT ![c] =
       [Idle EXCEPT !.pc = "sendall", !.dest = dest, !.frame = frame,
                    !.rest = send_json_bytes(obj)]]

\* handle_media_message from its start to the call of
\* send_json(self.clients[to_user], {...}) for a friend who is online.
media_sendall(c, from_user, to_user) ==
    /\ sock[c] = "open"
    /\ thread[c].pc = "idle"
    /\ are_friends(from_user, to_user)
    /\ Delivered(to_user)
    /\ StreamDue + BLen(send_json_bytes(Media(1))) <= MaxStream
    /\ thread' = sendall_enter(c, clients[to_user], Media(1), Frame("MEDIA", from_user, "m1"))
    /\ sent' = <<>>
    /\ last' = Req("MEDIA", c, from_user, to_user, "m1")
    /\ UNCHANGED <<stores, sock, username, lock, extras>>

\* The PING branch of handle_client: self.send_json(client_socket, {'type': 'PONG'}).
ping_sendall(c) ==
    /\ sock[c] = "open"
    /\ thread[c].pc = "idle"
    /\ StreamDue + BLen(send_json_bytes(Pong)) <= MaxStream
    /\ thread' = sendall_enter(c, c, Pong, Frame("PONG", "-", "-"))
    /\ sent' = <<>>
    /\ last' = Req("PING", c, "-", "-", "-")
    /\ UNCHANGED <<stores, sock, username, lock, extras>>

\* One send() call of the loop; the handler is done when nothing is left.
sendall_send(c) ==
    /\ thread[c].pc = "sendall"
    /\ \E k \in send_sizes(BLen(thread[c].rest)) :
          LET left == BDrop(thread[c].rest, k)
          IN  /\ stream' = IF thread[c].dest = Framed
                           THEN BCat(stream, BTake(thread[c].rest, k))
                           ELSE stream
              /\ thread' = [thread EXCEPT ![c] =
                              IF left = <<>> THEN Idle ELSE [@ EXCEPT !.rest = left]]
              /\ sent' = IF left = <<>> THEN << Wr(thread[c].dest, thread[c].frame) >> ELSE << >>
    /\ last' = Req("SEND", c, thread[c].frame.from, "-", "-")
    /\ UNCHANGED <<stores, sock, username, lock, queue_keys>>

\* ---------------------------------------------------------------- specifications
\* Spec: connections, registration, login and friend requests on a fresh server.
Next ==
    \/ \E c \in Conns : Accept(c) /\ UNCHANGED <<framing, threads, extras>>
    \/ \E c \in Conns : PeerReset(c) /\ UNCHANGED <<framing, threads, extras>>
    \/ \E c \in Conns : ConnectionLost(c) /\ UNCHANGED <<framing, threads, extras>>
    \/ \E c \in Conns : Logout(c) /\ UNCHANGED <<framing, threads, extras>>
    \/ \E c \in Conns, u \in Pair, p \in Passwords : handle_register(c, u, p) /\ UNCHANGED <<framing, threads, extras>>
    \/ \E c \in Conns, u \in Pair, p \in Passwords : handle_login(c, u, p) /\ UNCHANGED <<framing, threads, extras>>
    \/ \E c \in Conns, b \in Pair : handle_friend_request(c, "a", b) /\ UNCHANGED <<framing, threads, extras>>

Spec == Init /\ [][Next]_vars

\* The friend and group specifications cap the notifications queued in total.
NotesBounded == TotalQueued(offline_messages', Users) <= MaxNotes

\* FSpec: the friend graph on a fresh server.
FNext ==
    \/ \E c \in Conns : Accept(c) /\ UNCHANGED <<framing, threads, extras>>
    \/ \E c \in Conns : ConnectionLost(c) /\ UNCHANGED <<framing, threads, extras>>
    \/ \E c \in Conns, u \in Pair : handle_register(c, u, "p") /\ UNCHANGED <<framing, threads, extras>>
    \/ \E c \in Conns, a \in Pair, b \in Pair :
           handle_friend_request(c, a, b) /\ NotesBounded /\ UNCHANGED <<framing, threads, extras>>
    \/ \E c \in Conns, a \in Pair, b \in Pair, acc \in BOOLEAN :
           handle_friend_request_response(c, a, b, acc) /\ NotesBounded /\ UNCHANGED <<framing, threads, extras>>
    \/ \E c \in Conns, a \in Pair, b \in Pair : handle_unfriend(c, a, b) /\ UNCHANGED <<framing, threads, extras>>

FSpec == Init /\ [][FNext]_vars

\* RSpec: direct routing on a server started with users and friend files on disk.
RInit ==
    /\ clients = [u \in Users |-> NoConn]
    /\ users_db = [u \in Users |-> IF u \in Pair THEN [password |-> "p"] ELSE NoUser]
    /\ groups_db = [g \in Groups |-> NoGroup]
    /\ offline_messages = [u \in Users |-> <<>>]
    /\ friends \in {[u \in Users |-> {}],
                    [u \in Users |-> IF u \in Pair THEN Pair \ {u} ELSE {}]}
    /\ sock = [c \in Conns |-> "closed"]
    /\ username = [c \in Conns |-> None]
    /\ sent = <<>>
    /\ last = Req("INIT", "-", "-", "-", "-")
    /\ FramingInit
    /\ ThreadsInit
    /\ ExtrasInit

RNext ==
    \/ \E c \in Conns : Accept(c) /\ UNCHANGED <<framing, threads, extras>>
    \/ \E c \in Conns : PeerReset(c) /\ UNCHANGED <<framing, threads, extras>>
    \/ \E c \in Conns : ConnectionLost(c) /\ UNCHANGED <<framing, threads, extras>>
    \/ \E c \in Conns : Logout(c) /\ UNCHANGED <<framing, threads, extras>>
    \/ \E c \in Conns, u \in Pair, p \in Passwords : handle_login(c, u, p) /\ UNCHANGED <<framing, threads, extras>>
    \/ \E c \in Conns, a \in Pair, b \in Pair : handle_unfriend(c, a, b) /\ UNCHANGED <<framing, threads, extras>>
    \/ \E c \in Conns, a \in Pair, m \in Payloads : handle_private_message(c, a, "b", m) /\ UNCHANGED <<framing, threads, extras>>
    \/ \E c \in Conns, a \in Pair : handle_media_message(c, a, "b", "m1") /\ UNCHANGED <<framing, threads, extras>>
    \/ \E c \in Conns : handle_private_message_except(c) /\ UNCHANGED <<framing, threads, extras>>

RSpec == RInit /\ [][RNext]_vars

\* GSpec: the group roster on a fresh server.
GNext ==
    \/ \E c \in Conns : Accept(c) /\ UNCHANGED <<framing, threads, extras>>
    \/ \E c \in Conns : ConnectionLost(c) /\ UNCHANGED <<framing, threads, extras>>
    \/ \E c \in Conns : handle_register(c, "b", "p") /\ UNCHANGED <<framing, threads, extras>>
    \/ \E c \in Conns, g \in Groups, u \in Users, d \in Descriptions :
           handle_create_group(c, g, u, d) /\ UNCHANGED <<framing, threads, extras>>
    \/ \E c \in Conns, a \in Users, b \in Users, g \in Groups :
           handle_group_invite(c, a, b, g) /\ NotesBounded /\ UNCHANGED <<framing, threads, extras>>
    \/ \E c \in Conns, a \in Users, g \in Groups, acc \in BOOLEAN, i \in {"b", None} :
           handle_group_invite_response(c, a, g, acc, i) /\ UNCHANGED <<framing, threads, extras>>
    \/ \E c \in Conns, g \in Groups, u \in Users : handle_join_group(c, g, u) /\ UNCHANGED <<framing, threads, extras>>
    \/ \E c \in Conns, g \in Groups, u \in Users : handle_leave_group(c, g, u) /\ UNCHANGED <<framing, threads, extras>>
    \/ \E c \in Conns, a \in Pair, g \in Groups : handle_group_message(c, a, g, "m1") /\ UNCHANGED <<framing, threads, extras>>
    \/ \E c \in Conns, g \in Groups : handle_group_media(c, "a", g, "m1") /\ UNCHANGED <<framing, threads, extras>>

GSpec == Init /\ [][GNext]_vars

\* WSpec: one accepted connection on a fresh server, read frame by frame.
WInit ==
    /\ clients = [u \in Users |-> NoConn]
    /\ users_db = [u \in Users |-> NoUser]
    /\ groups_db = [g \in Groups |-> NoGroup]
    /\ offline_messages = [u \in Users |-> <<>>]
    /\ friends = [u \in Users |-> {}]
    /\ sock = [c \in Conns |-> IF c = Framed THEN "open" ELSE "closed"]
    /\ username = [c \in Conns |-> None]
    /\ sent = <<>>
    /\ last = Req("ACCEPT", Framed, "-", "-", "-")
    /\ FramingInit
    /\ ThreadsInit
    /\ ExtrasInit

WNext ==
    \/ \E obj \in WireObjs : peer_send(obj) /\ UNCHANGED <<threads, extras>>
    \/ \E bytes \in RawFrames : peer_send_raw(bytes) /\ UNCHANGED <<threads, extras>>
    \/ \E k \in 1..(HeaderLen + 2) : peer_send_cut(Ping, k) /\ UNCHANGED <<threads, extras>>
    \/ peer_close /\ UNCHANGED <<threads, extras>>
    \/ recv_header /\ UNCHANGED <<threads, extras>>
    \/ recv_data /\ UNCHANGED <<threads, extras>>
    \/ recv_closed /\ UNCHANGED <<threads, extras>>
    \/ dispatch /\ UNCHANGED <<threads, extras>>

WSpec == WInit /\ [][WNext]_vars

\* Two registered friends, a group administered by "a"; handlers of two
\* connections interleave step by step.
TInit ==
    /\ clients = [u \in Users |-> NoConn]
    /\ users_db = [u \in Users |-> IF u \in Pair THEN [password |-> "p"] ELSE NoUser]
    /\ groups_db = [g \in Groups |->
                      [admin |-> "a", members |-> << "a" >>, description |-> "d1"]]
    /\ offline_messages = [u \in Users |-> <<>>]
    /\ friends = [u \in Users |-> IF u \in Pair THEN Pair \ {u} ELSE {}]
    /\ sock = [c \in Conns |-> "closed"]
    /\ username = [c \in Conns |-> None]
    /\ sent = <<>>
    /\ last = Req("INIT", "-", "-", "-", "-")
    /\ FramingInit
    /\ ThreadsInit
    /\ ExtrasInit

TNext ==
    \/ \E c \in Conns : Accept(c) /\ UNCHANGED <<framing, threads, extras>>
    \/ \E c \in Conns : PeerReset(c) /\ UNCHANGED <<framing, threads, extras>>
    \/ \E c \in Conns : client_finally(c) /\ UNCHANGED <<framing, extras>>
    \/ \E c \in Conns, u \in Pair : handle_login_enter(c, u, "p") /\ UNCHANGED <<framing, extras>>
    \/ \E c \in Conns : send_offline_messages_send(c) /\ UNCHANGED <<framing, extras>>
    \/ \E c \in Conns : send_offline_messages_clear(c) /\ UNCHANGED <<framing, extras>>
    \/ \E c \in Conns, k \in RoutedKinds :
           route_lookup(c, k, "a", "b") /\ Pending("b") < MaxNotes /\ UNCHANGED <<framing, extras>>
    \/ \E c \in Conns : route_send(c) /\ UNCHANGED <<framing, extras>>
    \/ \E c \in Conns : route_store(c) /\ UNCHANGED <<framing, extras>>

TSpec == TInit /\ [][TNext]_vars

\* The same with private messages only, a deeper queue, and the answers to a
\* group invitation.
LNext ==
    \/ \E c \in Conns : Accept(c) /\ UNCHANGED <<framing, threads, extras>>
    \/ \E c \in Conns : PeerReset(c) /\ UNCHANGED <<framing, threads, extras>>
    \/ \E c \in Conns : client_finally(c) /\ UNCHANGED <<framing, extras>>
    \/ \E c \in Conns, u \in Pair : handle_login_enter(c, u, "p") /\ UNCHANGED <<framing, extras>>
    \/ \E c \in Conns : send_offline_messages_send(c) /\ UNCHANGED <<framing, extras>>
    \/ \E c \in Conns : send_offline_messages_clear(c) /\ UNCHANGED <<framing, extras>>
    \/ \E c \in Conns :
           route_lookup(c, "PRIVATE_MESSAGE", "a", "b") /\ Pending("b") < MaxPending
             /\ UNCHANGED <<framing, extras>>
    \/ \E c \in Conns : route_send(c) /\ UNCHANGED <<framing, extras>>
    \/ \E c \in Conns : route_store(c) /\ UNCHANGED <<framing, extras>>
    \/ \E c \in Conns, acc \in BOOLEAN :
           invite_response_enter(c, "b", TheGroup, acc, "a") /\ UNCHANGED <<framing, extras>>
    \/ \E c \in Conns : invite_response_notify(c) /\ UNCHANGED <<framing, extras>>

LSpec == TInit /\ [][LNext]_vars

\* Three registered users without friends; "b" and "c" are logged in on the
\* two connections and answer requests of "a", or unfriend "a".
IInit ==
    /\ clients = [u \in Users |-> IF u = "b" THEN "c1" ELSE IF u = "c" THEN "c2" ELSE NoConn]
    /\ users_db = [u \in Users |-> [password |-> "p"]]
    /\ groups_db = [g \in Groups |-> NoGroup]
    /\ offline_messages = [u \in Users |-> <<>>]
    /\ friends = [u \in Users |-> {}]
    /\ sock = [c \in Conns |-> "open"]
    /\ username = [c \in Conns |-> IF c = "c1" THEN "b" ELSE "c"]
    /\ sent = <<>>
    /\ last = Req("LOGIN", "c2", "c", "-", "p")
    /\ FramingInit
    /\ ThreadsInit
    /\ ExtrasInit

INext ==
    \/ \E c \in Conns, why \in {"accept", "unfriend"} :
           relationship_load1(c, why, username[c], "a") /\ UNCHANGED <<framing, extras>>
    \/ \E c \in Conns : relationship_load2(c) /\ UNCHANGED <<framing, extras>>
    \/ \E c \in Conns : relationship_save1(c) /\ UNCHANGED <<framing, extras>>
    \/ \E c \in Conns : relationship_save2(c) /\ UNCHANGED <<framing, extras>>

ISpec == IInit /\ [][INext]_vars

\* The routed handlers for a recipient who stays offline, with
\* store_offline_message taken step by step.
QNext ==
    \/ \E c \in Conns : Accept(c) /\ UNCHANGED <<framing, threads, extras>>
    \/ \E c \in Conns, k \in RoutedKinds :
           route_lookup(c, k, "a", "b") /\ Pending("b") < MaxPending
             /\ UNCHANGED <<framing, extras>>
    \/ \E c \in Conns : store_check(c) /\ UNCHANGED framing
    \/ \E c \in Conns : store_create(c) /\ UNCHANGED framing
    \/ \E c \in Conns : store_append(c) /\ UNCHANGED framing

QSpec == TInit /\ [][QNext]_vars

\* A fresh server whose connections register, with handle_register taken
\* step by step.
UNext ==
    \/ \E c \in Conns : Accept(c) /\ UNCHANGED <<framing, threads, extras>>
    \/ \E c \in Conns : client_finally(c) /\ UNCHANGED <<framing, extras>>
    \/ \E c \in Conns, u \in Pair, p \in Passwords :
           register_dispatch(c, u, p) /\ UNCHANGED <<framing, extras>>
    \/ \E c \in Conns : register_check(c) /\ UNCHANGED <<framing, extras>>
    \/ \E c \in Conns : register_store(c) /\ UNCHANGED <<framing, extras>>
    \/ \E c \in Conns : send_offline_messages_send(c) /\ UNCHANGED <<framing, extras>>

USpec == Init /\ [][UNext]_vars

\* Friends "a" and "b" are logged in, "b" on the framed connection; the
\* handler of the other connection forwards media to "b" while the handler
\* of the framed connection answers pings.
BInit ==
    /\ clients = [u \in Users |-> IF u = "b" THEN Framed
                                  ELSE IF u = "a" THEN CHOOSE c \in Conns : c # Framed
                                  ELSE NoConn]
    /\ users_db = [u \in Users |-> IF u \in Pair THEN [password |-> "p"] ELSE NoUser]
    /\ groups_db = [g \in Groups |-> NoGroup]
    /\ offline_messages = [u \in Users |-> <<>>]
    /\ friends = [u \in Users |-> IF u \in Pair THEN Pair \ {u} ELSE {}]
    /\ sock = [c \in Conns |-> "open"]
    /\ username = [c \in Conns |-> IF c = Framed THEN "b" ELSE "a"]
    /\ sent = <<>>
    /\ last = Req("LOGIN", Framed, "b", "-", "p")
    /\ FramingInit
    /\ ThreadsInit
    /\ ExtrasInit

BNext ==
    \/ \E c \in Conns \ {Framed} : media_sendall(c, "a", "b") /\ UNCHANGED framing
    \/ ping_sendall(Framed) /\ UNCHANGED framing
    \/ \E c \in Conns : sendall_send(c) /\ UNCHANGED framing

BSpec == BInit /\ [][BNext]_vars

\* ---------------------------------------------------------------- properties
Direct == {"PRIVATE_MESSAGE", "MEDIA"}

\* The step is a successful LOGIN (or REGISTER, which starts a session the same
\* way): its first reply is the success frame.
LoginSucceeds ==
    /\ last'.op \in {"LOGIN", "REGISTER"}
    /\ sent' # <<>>
    /\ sent'[1].frame.type \in {"LOGIN_SUCCESS", "REGISTER_SUCCESS"}

BatchesIn(s) == {i \in 1..Len(s) : s[i].frame.type = "OFFLINE_MESSAGES"}

IsPrefix(s, t) == Len(s) <= Len(t) /\ SubSeq(t, 1, Len(s)) = s

\* C1 (authorization gate): a PRIVATE_MESSAGE or MEDIA frame from a to b that is
\* processed while b is not in a's friend set is answered with one MESSAGE_ERROR
\* reply on the sender's connection; nothing else is written to any connection
\* and no offline queue changes, whether b is online or offline.
C1_AuthorizationGate ==
    [][ (last'.op \in Direct /\ last'.to \notin friends[last'.from])
        => /\ Len(sent') = 1
           /\ sent'[1].conn = last'.conn
           /\ sent'[1].frame.type = "MESSAGE_ERROR"
           /\ offline_messages' = offline_messages ]_vars

C1_Witness ==
    /\ last.op \in Direct
    /\ last.to \notin friends[last.from]
    /\ IsOnline(last.to) /\ sock[clients[last.to]] = "open"
    /\ clients[last.to] # last.conn
    /\ Len(sent) = 1 /\ sent[1].frame.type = "MESSAGE_ERROR"

\* C2 (friendship symmetry): in every state reached by friend requests,
\* responses and unfriend operations, b is in a's friend set iff a is in b's.
C2_FriendshipSymmetry ==
    \A a \in Users, b \in Users : (b \in friends[a]) <=> (a \in friends[b])

C2_Witness ==
    /\ last.op = "FRIEND_REQUEST_RESPONSE" /\ last.arg = "accepted"
    /\ last.from # last.to
    /\ last.to \in friends[last.from]
    /\ last.from \in friends[last.to]

\* C3 (offline delivery ordering): every queue grows only at its end, and a
\* successful login of H with a non-empty queue writes to H's connection the
\* login reply followed by exactly one OFFLINE_MESSAGES frame whose list is the
\* whole queue in enqueue order; that frame is the last write of the login, so
\* it precedes everything routed to H afterwards.
C3_OfflineOrdering ==
    [][ /\ \A u \in Users :
             \/ IsPrefix(offline_messages[u], offline_messages'[u])
             \/ offline_messages'[u] = <<>>
        /\ (LoginSucceeds /\ offline_messages[last'.from] # <<>>)
             => /\ Len(sent') = 2
                /\ sent'[2] = Wr(last'.conn, OfflineBatch(offline_messages[last'.from]))
                /\ clients'[last'.from] = last'.conn ]_vars

C3_Witness ==
    /\ last.op = "LOGIN"
    /\ Len(sent) = 2
    /\ sent[2].frame.type = "OFFLINE_MESSAGES"
    /\ Len(sent[2].frame.messages) = 3
    /\ sent[2].frame.messages[1].arg # sent[2].frame.messages[2].arg
    /\ sent[2].frame.messages[2].type # sent[2].frame.messages[3].type

\* C4 (offline exactly-once): a queue loses messages only in a successful login
\* of its owner that sends the whole queue as the one batch of that step; after
\* a successful login the owner's queue is empty; a successful login that finds
\* the queue empty sends no batch.
C4_OfflineExactlyOnce ==
    [][ /\ \A u \in Users :
             ~IsPrefix(offline_messages[u], offline_messages'[u])
               => /\ LoginSucceeds /\ last'.from = u
                  /\ BatchesIn(sent') = {2}
                  /\ sent'[2].frame.messages = offline_messages[u]
        /\ LoginSucceeds
             => /\ offline_messages'[last'.from] = <<>>
                /\ (offline_messages[last'.from] = <<>> => BatchesIn(sent') = {}) ]_vars

C4_Witness ==
    /\ last.op = "LOGIN"
    /\ Len(sent) = 2
    /\ sent[2].frame.messages = << [Frame("PRIVATE_MESSAGE", "a", "m2") EXCEPT !.stored = TRUE] >>
    /\ offline_messages[last.from] = <<>>

\* The two outcomes of routing a direct message from a friend.
WrittenLive ==
    /\ sent' = << Wr(clients[last'.to], Frame(last'.op, last'.from, last'.arg)) >>
    /\ offline_messages' = offline_messages

Enqueued ==
    /\ sent' = <<>>
    /\ offline_messages' =
         [offline_messages EXCEPT ![last'.to] =
            Append(@, [Frame(last'.op, last'.from, last'.arg) EXCEPT !.stored = TRUE])]

FriendsDirect == last'.op \in Direct /\ last'.to \in friends[last'.from]

\* C5 as stated (direct routing decided by the presence entry alone): for
\* friends a and b the message is written once to b's connection and nothing is
\* enqueued when b has a presence entry, and is appended once to b's queue and
\* written nowhere when b has none.
C5_PresenceDecides ==
    [][ FriendsDirect
        => IF clients[last'.to] # NoConn THEN WrittenLive ELSE Enqueued ]_vars

\* C5 (direct routing, amended): for friends a and b the message is written
\* once to b's connection, carrying from=a and the payload, and nothing is
\* enqueued, when b has a presence entry and the write to that connection
\* succeeds; it is appended once to b's queue and written to no connection
\* when b has no presence entry or the write to b's connection fails.
C5_DirectRouting ==
    [][ FriendsDirect
        => IF clients[last'.to] # NoConn /\ sock[clients[last'.to]] = "open"
           THEN WrittenLive ELSE Enqueued ]_vars

C5_Witness ==
    /\ last.op \in Direct
    /\ last.to \in friends[last.from]
    /\ IsOnline(last.to) /\ sock[clients[last.to]] # "open"
    /\ sent = <<>>
    /\ offline_messages[last.to] # <<>>

\* C6 (group admin invariant): every group in the roster has a non-empty
\* members list that contains its admin.
C6_GroupAdmin ==
    \A g \in Groups :
        group_exists(g) =>
            /\ groups_db[g].members # <<>>
            /\ groups_db[g].admin \in SeqToSet(groups_db[g].members)

C6_Witness ==
    /\ last.op = "LEAVE_GROUP"
    /\ sent[1].frame.type = "LEAVE_GROUP_SUCCESS"
    /\ last.to = last.from
    /\ group_exists(last.arg)
    /\ Len(groups_db[last.arg].members) = 2
    /\ groups_db[last.arg].admin = groups_db[last.arg].members[1]

\* C7 (idempotent duplicate friend request): no offline queue holds more than
\* one FRIEND_REQUEST entry from the same requester.
PendingFrom(a, b) ==
    {i \in 1..Len(offline_messages[b]) :
        offline_messages[b][i].type = "FRIEND_REQUEST" /\ offline_messages[b][i].from = a}

C7_SinglePendingRequest ==
    \A a \in Users, b \in Users : Cardinality(PendingFrom(a, b)) <= 1

\* C8 (register never overwrites): a REGISTER for a handle already in the
\* identity store is answered with one REGISTER_ERROR and changes neither the
\* stored record nor the presence map.
C8_RegisterNoOverwrite ==
    [][ (last'.op = "REGISTER" /\ users_db[last'.from] # NoUser)
        => /\ Len(sent') = 1
           /\ sent'[1].conn = last'.conn
           /\ sent'[1].frame.type = "REGISTER_ERROR"
           /\ users_db' = users_db
           /\ clients' = clients ]_vars

C8_Witness ==
    /\ last.op = "REGISTER"
    /\ Len(sent) = 1 /\ sent[1].frame.type = "REGISTER_ERROR"
    /\ users_db[last.from].password # last.arg
    /\ clients[last.from] # last.conn

\* C9 (failed authentication has no effect on stores): a LOGIN for an unknown
\* handle is answered with the not-found error, a LOGIN with a wrong password
\* with the invalid-password error; in both cases the presence map and every
\* offline queue stay as they were and no batch is sent.
C9_FailedLoginNoEffect ==
    [][ (last'.op = "LOGIN"
         /\ (users_db[last'.from] = NoUser \/ users_db[last'.from].password # last'.arg))
        => /\ sent' = << Wr(last'.conn,
                            Frame("LOGIN_ERROR", "-",
                                  IF users_db[last'.from] = NoUser
                                  THEN "User not found" ELSE "Invalid password")) >>
           /\ clients' = clients
           /\ offline_messages' = offline_messages ]_vars

C9_Witness ==
    /\ last.op = "LOGIN"
    /\ Len(sent) = 1 /\ sent[1].frame.arg = "Invalid password"
    /\ offline_messages[last.from] # <<>>
    /\ IsOnline(last.from) /\ clients[last.from] # last.conn

\* C10 (at most one live session per handle): no two open connections are both
\* authenticated as the same handle.
C10_OneSessionPerHandle ==
    \A c1 \in Conns, c2 \in Conns :
        (c1 # c2 /\ sock[c1] = "open" /\ sock[c2] = "open" /\ username[c1] # None)
            => username[c1] # username[c2]

\* A handler is running on c from accept() until its finally block has closed
\* the socket.
HandlerRunning(c) == sock[c] \in {"open", "broken"}

\* C11 (session close deregisters presence): every handle in the presence map
\* maps to a connection whose handler is still running and is authenticated as
\* that handle; so no entry refers to the connection of a handler that ended.
C11_PresenceLive ==
    \A u \in Users :
        clients[u] # NoConn
            => /\ HandlerRunning(clients[u])
               /\ username[clients[u]] = u

\* The reply of the step is an authentication error.
AuthFails ==
    /\ last'.op \in {"LOGIN", "REGISTER"}
    /\ sent'[1].frame.type \in {"LOGIN_ERROR", "REGISTER_ERROR"}

\* C12 (failed authentication closes the connection): the step that answers a
\* REGISTER or LOGIN with an error closes that connection's socket, and no
\* frame is dispatched on a connection whose last authentication failed.
C12_FailedAuthCloses ==
    [][ /\ AuthFails => sock'[last'.conn] = "closed"
        /\ (last.op \in {"LOGIN", "REGISTER"} /\ sent # <<>>
            /\ sent[1].frame.type \in {"LOGIN_ERROR", "REGISTER_ERROR"})
             => last'.conn # last.conn \/ last'.op \in {"CLOSE", "RESET", "ACCEPT"} ]_vars

\* The UNFRIENDED_BY notification of the step, as written live and as stored.
UnfriendedBy == Frame("UNFRIENDED_BY", last'.from, "-")

\* C20 (unfriend removes both sides and notifies): after UNFRIEND from a
\* targeting its friend b neither is in the other's friend set, and the notification for
\* b is written to b's live connection or, when b is offline, appended to b's
\* offline queue.
C20_UnfriendNotifies ==
    [][ (last'.op = "UNFRIEND" /\ last'.from # last'.to
         /\ last'.to \in friends[last'.from])
        => /\ last'.to \notin friends'[last'.from]
           /\ last'.from \notin friends'[last'.to]
           /\ IF IsOnline(last'.to)
              THEN Wr(clients[last'.to], UnfriendedBy) \in SeqToSet(sent')
              ELSE offline_messages'[last'.to] =
                     Append(offline_messages[last'.to],
                            [UnfriendedBy EXCEPT !.stored = TRUE]) ]_vars

GroupKinds == {"GROUP_MESSAGE", "GROUP_MEDIA"}

\* The step accepts a group message: the group exists and the sender is a member.
GroupAccepted ==
    /\ last'.op \in GroupKinds
    /\ group_exists(last'.to)
    /\ is_member(last'.to, last'.from)

\* C19 (group broadcast reaches every other member): after a GROUP_MESSAGE or
\* GROUP_MEDIA from member s of g is accepted, every member of g other than s
\* has the message written to its live connection or appended to its offline
\* queue, and nothing is written to s.
C19_BroadcastReachesAll ==
    [][ GroupAccepted
        => LET message == GroupFrame(last'.op, last'.from, last'.to, last'.arg)
           IN  /\ \A m \in SeqToSet(groups_db[last'.to].members) \ {last'.from} :
                     \/ /\ IsOnline(m)
                        /\ Wr(clients[m], message) \in SeqToSet(sent')
                     \/ offline_messages'[m] =
                          Append(offline_messages[m], [message EXCEPT !.stored = TRUE])
               /\ IsOnline(last'.from)
                     => \A i \in 1..Len(sent') : sent'[i].conn # clients[last'.from] ]_vars

ErrorKinds == {"MESSAGE_ERROR", "LOGIN_ERROR", "REGISTER_ERROR", "UNFRIEND_ERROR"}

\* The frame of the step cannot be processed: a required field is missing, or
\* the sender is not a friend of the recipient.
PerMessageError ==
    \/ last'.op = "BAD_SHAPE"
    \/ last'.op \in Direct /\ last'.to \notin friends[last'.from]

\* C13 (per-message errors are replied and non-fatal): a frame that fails on a
\* missing field or on authorization is answered with an error-kind reply on
\* the sender's connection, and the handler stays in its read loop: the socket
\* stays open and the handler keeps its identity.
C13_ErrorsReplied ==
    [][ PerMessageError
        => /\ \E i \in 1..Len(sent') :
                 /\ sent'[i].conn = last'.conn
                 /\ sent'[i].frame.type \in ErrorKinds
           /\ sock'[last'.conn] = "open"
           /\ username'[last'.conn] = username[last'.conn] ]_vars

\* ---------------------------------------------------------------- framing properties
MaxLength == 1000000        \* the largest payload length a reader is to accept
MaxPayload == 99999999      \* the largest length eight decimal digits can carry

RECURSIVE Stream(_)
\* All the bytes of a list of written frames, in order.
Stream(ws) == IF ws = <<>> THEN <<>> ELSE BCat(Head(ws).bytes, Stream(Tail(ws)))

AllDigits(cs) == \A i \in 1..Len(cs) : IsDigit(cs[i])

\* bytes are an eight-digit decimal length followed by exactly that many bytes.
WellFramed(bytes) ==
    /\ BLen(bytes) >= HeaderLen
    /\ AllDigits(Chars(BTake(bytes, HeaderLen)))
    /\ DecimalValue(Chars(BTake(bytes, HeaderLen))) = BLen(bytes) - HeaderLen

\* What reading a well-framed frame comes to.
Expected(bytes) ==
    IF json_loads_ok(BDrop(bytes, HeaderLen))
    THEN Outcome("message", json_loads(BDrop(bytes, HeaderLen)))
    ELSE Outcome("JSONDecodeError", NoObj)

\* The frames the handler has not started on are still on the wire, unread.
AtBoundary ==
    (pc = "header" /\ length_bytes = <<>> /\ Len(log) <= Len(written))
        => wire = Stream(SubSeq(written, Len(log) + 1, Len(written)))

\* The step ends a recv_json call on a frame that cannot be dispatched: its
\* payload is not JSON, or its type is unknown.
Undispatchable ==
    /\ Len(log') = Len(log) + 1
    /\ \/ log'[Len(log')].res = "JSONDecodeError"
       \/ log'[Len(log')].obj = Unknown

\* C14 (decode failures and unknown kinds are recoverable): a well-framed frame
\* whose payload is not JSON, or whose type is not dispatched, changes no store,
\* leaves the socket open and the handler at the start of its next recv_json
\* call; and while all frames written are well-framed, the i-th recv_json call
\* comes to the i-th frame's message (or its decode error) and the unread
\* frames are intact on the wire, so the next frame is read at its boundary.
C14_DecodeRecoverable ==
    [][ /\ (Undispatchable /\ \A i \in 1..Len(written) : WellFramed(written[i].bytes))
           => /\ stores' = stores
              /\ sock' = sock /\ sock[Framed] = "open"
              /\ username' = username
              /\ pc' = "header" /\ length_bytes' = <<>>
              /\ wire' = wire
        /\ (\A i \in 1..Len(written') : WellFramed(written'[i].bytes))
           => /\ \A i \in 1..Len(log') :
                    IF i <= Len(written')
                    THEN log'[i] = Expected(written'[i].bytes)
                    ELSE log'[i].res = "ConnectionError"
              /\ AtBoundary' ]_vars

C14_Witness ==
    /\ Len(written) = 2
    /\ written[1].bytes = NotJson
    /\ log = << Outcome("JSONDecodeError", NoObj), Outcome("message", RegisterMsg) >>
    /\ clients["a"] = Framed
    /\ sock[Framed] = "open"

\* C15 (transport-level errors terminate the session): a recv_json call that
\* meets a closed socket or a malformed length header ends the handler: it
\* leaves the loop, the socket is closed and no presence entry refers to the
\* connection; no further recv_json call follows.
C15_TransportErrorsTerminate ==
    [][ (Len(log') = Len(log) + 1
         /\ log'[Len(log')].res \in {"ConnectionError", "ValueError"})
        => /\ pc' = "done"
           /\ sock'[Framed] = "closed"
           /\ \A u \in Users : clients'[u] # Framed ]_vars

\* C16 as stated (framing round-trip for every message object): what send_json
\* writes is an eight-digit length followed by that many payload bytes, and a
\* connection on which only send_json frames were written reads them back as
\* the same messages in the same order, consuming exactly their bytes.
SentByJson(ws) == \A i \in 1..Len(ws) : ws[i].kind = "json"

ReadBack ==
    /\ \A i \in 1..Len(written) :
          /\ WellFramed(written[i].bytes)
          /\ BDrop(written[i].bytes, HeaderLen) = json_dumps(written[i].obj)
    /\ \A i \in 1..Len(log) :
          IF i <= Len(written)
          THEN log[i] = Outcome("message", written[i].obj)
          ELSE log[i].res = "ConnectionError"
    /\ AtBoundary

C17_HeaderValidated ==
    pc \in {"data", "dispatch"}
        => /\ AllDigits(Chars(length_bytes))
           /\ length <= MaxLength

\* C18 (partial reads are reassembled): however the bytes arrive, the bytes
\* recv_json has gathered followed by the unread ones are the bytes written;
\* the first recv_json call on a well-framed frame comes to that frame's
\* message whatever the chunks were; and a recv that returns no byte inside
\* the header or the payload ends the call with a connection-closed error,
\* never with a length-parse or decode error.
C18_PartialReads ==
    [][ /\ Len(log') = 0
           => BCat(BCat(length_bytes', data'), wire') = Stream(written')
        /\ (Len(log) = 0 /\ Len(log') = 1 /\ written # <<>> /\ WellFramed(written[1].bytes))
           => log'[1] = Expected(written[1].bytes)
        /\ (pc \in {"header", "data"} /\ wire = <<>> /\ peer_closed /\ log' # log)
           => /\ log'[Len(log')].res = "ConnectionError"
              /\ sock'[Framed] = "closed"
        /\ (Len(log) = 0 /\ Len(log') = 1 /\ written # <<>> /\ written[1].kind = "cut")
           => log'[1].res = "ConnectionError" ]_vars

C18_Witness ==
    /\ Len(written) = 1
    /\ written[1].kind = "cut"
    /\ BLen(written[1].bytes) = HeaderLen + 1
    /\ log = << Outcome("ConnectionError", NoObj) >>
    /\ sock[Framed] = "closed"

\* ---------------------------------------------------------------- friend requests
FriendRequest == Frame("FRIEND_REQUEST", last'.from, "-")

\* The request of the step is written once to the recipient's connection.
RequestWritten ==
    /\ sent' = << Wr(clients[last'.to], FriendRequest) >>
    /\ offline_messages' = offline_messages

\* The request of the step is appended once to the recipient's queue.
RequestQueued ==
    /\ sent' = <<>>
    /\ offline_messages' =
         [offline_messages EXCEPT ![last'.to] =
            Append(@, [FriendRequest EXCEPT !.stored = TRUE])]

\* A request to an unregistered handle: one error to the requester, no queue
\* and no friend set changes.
RequestRefused ==
    /\ sent' = << Wr(last'.conn, Frame("FRIEND_REQUEST_ERROR", "-", "User not found")) >>
    /\ offline_messages' = offline_messages
    /\ friends' = friends

\* C21 as stated (friend request routing by the presence entry alone): a
\* request to a registered b is written to b's connection when b has a presence
\* entry and is otherwise appended to b's queue; a request to an unregistered
\* handle is refused.
C21_RequestByPresence ==
    [][ last'.op = "FRIEND_REQUEST"
        => IF users_db[last'.to] = NoUser THEN RequestRefused
           ELSE IF clients[last'.to] # NoConn THEN RequestWritten
           ELSE RequestQueued ]_vars

\* C21 (friend request routing, amended): a request to a registered b is
\* written to b's connection when b has a presence entry and the write
\* succeeds, and is appended to b's queue when b has no presence entry or the
\* write fails; a request to an unregistered handle is refused.
C21_RequestRouting ==
    [][ last'.op = "FRIEND_REQUEST"
        => IF users_db[last'.to] = NoUser THEN RequestRefused
           ELSE IF clients[last'.to] # NoConn /\ sock[clients[last'.to]] = "open"
           THEN RequestWritten
           ELSE RequestQueued ]_vars

C21_Witness ==
    /\ last.op = "FRIEND_REQUEST"
    /\ users_db[last.to] # NoUser
    /\ clients[last.to] # NoConn /\ sock[clients[last.to]] = "broken"
    /\ sent = <<>>
    /\ offline_messages[last.to] # <<>>

\* C22 (friend request between existing friends): a FRIEND_REQUEST from a to b
\* while they are friends is answered to the requester, and no request is
\* written to b's connection or appended to b's queue.
C22_AlreadyFriends ==
    [][ (last'.op = "FRIEND_REQUEST" /\ last'.from # last'.to
         /\ last'.to \in friends[last'.from])
        => /\ \E i \in 1..Len(sent') : sent'[i].conn = last'.conn
           /\ \A i \in 1..Len(sent') : sent'[i].frame.type # "FRIEND_REQUEST"
           /\ offline_messages' = offline_messages ]_vars

\* ---------------------------------------------------------------- group requests
\* u is in the members list of g as the roster records it.
InRoster(gdb, g, u) == u \in SeqToSet(gdb[g].members)

\* The GROUP_INVITE of the step may be issued: g exists, the inviter is a
\* member and the invited user is not.
InviteAllowed ==
    /\ groups_db[last'.arg] # NoGroup
    /\ InRoster(groups_db, last'.arg, last'.from)
    /\ ~InRoster(groups_db, last'.arg, last'.to)

\* An invitation for the invited user leaves the step: on a connection or
\* into that user's queue.
Invited ==
    \/ \E i \in 1..Len(sent') : sent'[i].frame.type = "GROUP_INVITE"
    \/ offline_messages' # offline_messages

OneErrorReply(kind) ==
    /\ Len(sent') = 1
    /\ sent'[1].conn = last'.conn
    /\ sent'[1].frame.type = kind

\* C23 (group invite preconditions): a GROUP_INVITE produces an invitation
\* only if g exists, f is a member and t is not; otherwise the requester gets
\* one error reply and nothing is written or enqueued for t; when the
\* conditions hold and t is registered the invitation is written to t's
\* connection or appended to t's queue; the roster never changes.
C23_InvitePreconditions ==
    [][ last'.op = "GROUP_INVITE"
        => /\ Invited => InviteAllowed
           /\ ~InviteAllowed
                => OneErrorReply("GROUP_INVITE_ERROR") /\ offline_messages' = offline_messages
           /\ (InviteAllowed /\ users_db[last'.to] # NoUser)
                => LET invite == Frame("GROUP_INVITE", last'.from, last'.arg)
                   IN  \/ /\ IsOnline(last'.to)
                          /\ sent' = << Wr(clients[last'.to], invite) >>
                          /\ offline_messages' = offline_messages
                       \/ /\ sent' = <<>>
                          /\ offline_messages' =
                               [offline_messages EXCEPT ![last'.to] =
                                  Append(@, [invite EXCEPT !.stored = TRUE])]
           /\ groups_db' = groups_db ]_vars

C23_Witness ==
    /\ last.op = "GROUP_INVITE"
    /\ last.from # last.to
    /\ InRoster(groups_db, last.arg, last.from)
    /\ InRoster(groups_db, last.arg, last.to)
    /\ Len(sent) = 1 /\ sent[1].frame.type = "GROUP_INVITE_ERROR"
    /\ sent[1].frame.arg = "User is already a member of this group"

\* C24 (leave semantics): LEAVE_GROUP by a member u of g removes u from the
\* members; if no member remains g leaves the roster; otherwise an admin u is
\* replaced by one of the remaining members and any other admin stays;
\* LEAVE_GROUP by a non-member or for an unknown group gets an error reply
\* and the roster is unchanged.
C24_LeaveSemantics ==
    [][ last'.op = "LEAVE_GROUP"
        => LET g == last'.arg
               u == last'.from
               before == groups_db[g]
               after == groups_db'[g]
           IN  IF before # NoGroup /\ InRoster(groups_db, g, u)
               THEN /\ OneErrorReply("LEAVE_GROUP_SUCCESS")
                    /\ IF SeqToSet(before.members) = {u}
                       THEN after = NoGroup
                       ELSE /\ after # NoGroup
                            /\ SeqToSet(after.members) = SeqToSet(before.members) \ {u}
                            /\ Len(after.members) = Len(before.members) - 1
                            /\ before.admin = u => after.admin \in SeqToSet(after.members)
                            /\ before.admin # u => after.admin = before.admin
               ELSE /\ OneErrorReply("LEAVE_GROUP_ERROR")
                    /\ groups_db' = groups_db ]_vars

\* A member that is not the admin has left and the admin stayed.
C24_Witness ==
    /\ last.op = "LEAVE_GROUP"
    /\ last.from # last.to
    /\ groups_db[last.arg] # NoGroup
    /\ ~InRoster(groups_db, last.arg, last.from)
    /\ groups_db[last.arg].admin = last.to
    /\ Len(sent) = 1 /\ sent[1].frame.type = "LEAVE_GROUP_SUCCESS"

\* C25 (creation and membership conflicts are no-ops): CREATE_GROUP for a new
\* name creates a group whose admin is the creator and whose only member is
\* the creator; CREATE_GROUP for an existing name gets an error reply and the
\* group is unchanged; JOIN_GROUP or an accepted GROUP_INVITE_RESPONSE by a
\* user who is already a member gets an error reply and the members list is
\* unchanged.
C25_ConflictsAreNoOps ==
    [][ /\ last'.op = "CREATE_GROUP"
           => IF groups_db[last'.to] = NoGroup
              THEN /\ groups_db'[last'.to] # NoGroup
                   /\ groups_db'[last'.to].admin = last'.from
                   /\ groups_db'[last'.to].members = << last'.from >>
                   /\ OneErrorReply("CREATE_GROUP_SUCCESS")
              ELSE /\ OneErrorReply("CREATE_GROUP_ERROR")
                   /\ groups_db' = groups_db
        /\ ( /\ last'.op \in {"JOIN_GROUP", "GROUP_INVITE_ACCEPT"}
             /\ groups_db[last'.arg] # NoGroup
             /\ InRoster(groups_db, last'.arg, last'.from) )
           => /\ OneErrorReply(IF last'.op = "JOIN_GROUP"
                               THEN "JOIN_GROUP_ERROR" ELSE "GROUP_INVITE_ERROR")
              /\ groups_db' = groups_db ]_vars

\* An invitation was accepted by a user who is a member already, in a group
\* somebody else administers.
C25_Witness ==
    /\ last.op = "GROUP_INVITE_ACCEPT"
    /\ groups_db[last.arg] # NoGroup
    /\ InRoster(groups_db, last.arg, last.from)
    /\ groups_db[last.arg].admin # last.from
    /\ Len(sent) = 1 /\ sent[1].frame.type = "GROUP_INVITE_ERROR"

\* C26 (group authorization errors mutate nothing): a GROUP_MESSAGE or
\* GROUP_MEDIA whose group does not exist or whose sender is not a member
\* gets one error reply on the sender's connection, is written to no other
\* connection, and changes no offline queue and no group record.
C26_GroupErrorsMutateNothing ==
    [][ ( /\ last'.op \in {"GROUP_MESSAGE", "GROUP_MEDIA"}
          /\ \/ groups_db[last'.to] = NoGroup
             \/ ~InRoster(groups_db, last'.to, last'.from) )
        => /\ OneErrorReply("MESSAGE_ERROR")
           /\ offline_messages' = offline_messages
           /\ groups_db' = groups_db ]_vars

\* A non-member wrote to a group one of whose members is online.
C26_Witness ==
    /\ last.op = "GROUP_MESSAGE"
    /\ groups_db[last.to] # NoGroup
    /\ ~InRoster(groups_db, last.to, last.from)
    /\ \E u \in SeqToSet(groups_db[last.to].members) :
           IsOnline(u) /\ sock[clients[u]] = "open" /\ clients[u] # last.conn
    /\ sent = << Wr(last.conn, sent[1].frame) >>
    /\ sent[1].frame.type = "MESSAGE_ERROR"

\* ---------------------------------------------------------------- lock and interleaving
\* The lock is held exactly by handlers inside one of the with blocks.
LockDiscipline ==
    \A c \in Conns :
        lock = c <=> /\ thread[c].pc \in {"register_store", "drain", "clear", "notify"}
                     /\ thread[c].pc = "notify" => thread[c].frame.type = "GROUP_INVITE_ACCEPTED"

\* The handler of c is about to write to the connection of another peer.
WritesToPeer(c) ==
    /\ thread[c].pc \in {"send", "notify"}
    /\ IsOnline(thread[c].to)
    /\ clients[thread[c].to] # c

\* C28 (no peer I/O under the store lock): in no reachable state does a
\* handler hold self.lock while it writes to another peer's connection.
C28_NoPeerIOUnderLock ==
    \A c \in Conns : ~(lock = c /\ WritesToPeer(c))

\* The write the handler of c is about to make cannot succeed: the
\* recipient's presence entry is gone, or its socket does not take the write.
WriteFails(c) ==
    /\ thread[c].pc = "send"
    /\ ~(IsOnline(thread[c].to) /\ sock[clients[thread[c].to]] = "open")

\* C27 (write failure falls back to the offline queue): when the write of a
\* routed message to a recipient that had a presence entry fails, or the
\* entry disappeared between the lookup and the write, the handler goes on
\* to store_offline_message with the same message, which is then appended to
\* the recipient's queue; the sender's connection and session are untouched.
C27_WriteFailureFallsBack ==
    [][ \A c \in Conns :
          LET to_user == thread[c].to
              frame == thread[c].frame
          IN  /\ (WriteFails(c) /\ thread'[c] # thread[c])
                   => /\ thread'[c].pc = "store"
                      /\ thread'[c].to = to_user
                      /\ thread'[c].frame = frame
                      /\ sock'[c] = sock[c]
                      /\ username'[c] = username[c]
                      /\ clients' = clients
              /\ (thread[c].pc = "store" /\ thread'[c] # thread[c])
                   => /\ offline_messages'[to_user] =
                            Append(offline_messages[to_user], [frame EXCEPT !.stored = TRUE])
                      /\ thread'[c].pc = "idle"
                      /\ sock'[c] = sock[c]
                      /\ username'[c] = username[c] ]_vars

\* A message was queued because the recipient's presence entry had gone by
\* the time of the write, and the sender's connection is still open.
C27_Witness ==
    /\ last.op = "STORE"
    /\ last.arg = "KeyError"
    /\ sock[last.conn] = "open"
    /\ offline_messages[last.to] # <<>>
    /\ offline_messages[last.to][Len(offline_messages[last.to])].from = last.from

C27_WitnessWriteRaised ==
    /\ last.op = "STORE"
    /\ last.arg = "OSError"
    /\ sock[last.conn] = "open"
    /\ offline_messages[last.to] # <<>>
    /\ offline_messages[last.to][Len(offline_messages[last.to])].type = "GROUP_INVITE"

\* C30 (drain is atomic with respect to enqueue): a message enqueued for H
\* while H's login runs send_offline_messages is in the batch sent at this
\* login or still queued after the queue has been cleared: what the clearing
\* step removes from H's queue is exactly the batch that was sent.
C30_DrainAtomic ==
    [][ \A c \in Conns :
          (thread[c].pc = "clear" /\ thread'[c].pc = "idle")
            => offline_messages[thread[c].to] = thread[c].frame.messages ]_vars

\* No handler is inside add_friend_relationship or remove_friend_relationship.
RelationshipsDone ==
    \A c \in Conns : thread[c].pc \notin {"load2", "save1", "save2"}

\* C29 (friend graph updates are atomic under interleaving): once two
\* handlers that ran add_friend_relationship / remove_friend_relationship on
\* pairs sharing a user have both finished, no update is lost: the friend
\* sets are symmetric.
C29_RelationshipsAtomic ==
    RelationshipsDone
      => \A u \in Users, v \in Users : v \in friends[u] <=> u \in friends[v]

\* ---------------------------------------------------------------- concurrent stores
\* C31 (concurrent enqueues are both kept): while handlers call
\* store_offline_message for the same offline recipient, also when the
\* recipient has no queue entry yet, no step removes a message that is in the
\* recipient's queue: every queue only grows at its end.
C31_BothKept ==
    [][ \A u \in Users : IsPrefix(offline_messages[u], offline_messages'[u]) ]_vars

\* ---------------------------------------------------------------- concurrent registration
\* C32 (concurrent registration of one handle): of the REGISTER frames for a
\* handle that connections have sent concurrently, the one answered while
\* the handle is not registered gets the success reply, its record is stored
\* and the presence entry points to its connection; each one answered once
\* the handle is registered gets the already-exists error and changes
\* neither; a stored record is never replaced.
C32_OneRegistration ==
    [][ /\ last'.op = "REGISTER"
           => IF users_db[last'.from] = NoUser
              THEN /\ OneErrorReply("REGISTER_SUCCESS")
                   /\ users_db'[last'.from] = [password |-> last'.arg]
                   /\ clients'[last'.from] = last'.conn
              ELSE /\ OneErrorReply("REGISTER_ERROR")
                   /\ users_db' = users_db
                   /\ clients' = clients
        /\ \A n \in Users : users_db[n] # NoUser => users_db'[n] = users_db[n] ]_vars

\* One connection has just won the registration while the other waits for
\* the lock with a REGISTER for the same handle and another password.
C32_Witness ==
    /\ last.op = "REGISTER"
    /\ Len(sent) = 1 /\ sent[1].frame.type = "REGISTER_SUCCESS"
    /\ clients[last.from] = last.conn
    /\ users_db[last.from] = [password |-> last.arg]
    /\ \E c \in Conns \ {last.conn} :
           /\ thread[c].pc = "register"
           /\ thread[c].to = last.from
           /\ thread[c].why # last.arg

\* ---------------------------------------------------------------- session properties
\* C33 (offline batch precedes live traffic): while the login of H has
\* registered H's presence entry and has a non-empty queue still to send, no
\* other frame is written to H's connection: the first write to it after
\* the login reply is the offline batch.
C33_BatchFirst ==
    [][ \A c \in Conns :
          (thread[c].pc = "drain" /\ offline_messages[thread[c].to] # <<>>)
            => \A i \in 1..Len(sent') :
                   sent'[i].conn = c => sent'[i].frame.type = "OFFLINE_MESSAGES" ]_vars

\* C34 (a closing session removes only its own presence entry): when the
\* handler of a connection ends, every presence entry that points to another
\* connection stays as it is.
C34_OnlyOwnEntry ==
    [][ last'.op \in {"CLOSE", "LOGOUT"}
        => \A h \in Users :
               (clients[h] # NoConn /\ clients[h] # last'.conn)
                 => clients'[h] = clients[h] ]_vars

\* C35 (a friend edge is created only by accepting a pending request): a
\* FRIEND_REQUEST_RESPONSE for which no request from `to` to `from` is
\* pending creates no edge.  A FRIEND_REQUEST to a handle that is not
\* registered is refused, so no request to such a handle is ever pending: a
\* response in its name leaves the friend sets unchanged.
C35_AcceptNeedsRequest ==
    [][ ( /\ last'.op = "FRIEND_REQUEST_RESPONSE"
          /\ last'.from # last'.to
          /\ users_db[last'.from] = NoUser )
        => friends' = friends ]_vars

\* C36 (sender identity is the session's handle): a frame that changes the
\* friend set of the user named in its `from` is acted on only when the
\* sending connection is authenticated as that user; a session authenticated
\* as another user cannot change it.
C36_SenderIsSession ==
    [][ ( /\ last'.op \in {"FRIEND_REQUEST_RESPONSE", "UNFRIEND"}
          /\ last'.from # last'.to
          /\ username[last'.conn] \notin {None, last'.from} )
        => friends'[last'.from] = friends[last'.from] ]_vars

\* Requests that are not frames of an authenticated session: connection
\* events, REGISTER and LOGIN.
SessionOps == {"INIT", "ACCEPT", "RESET", "CLOSE", "LOGOUT", "REGISTER", "LOGIN"}

\* C37 (dispatch only in the Active state): a frame other than REGISTER and
\* LOGIN that arrives on a connection without an authenticated handle
\* changes no store and is written to no other connection.
C37_DispatchOnlyActive ==
    [][ ( /\ last'.op \notin SessionOps
          /\ username[last'.conn] = None
          /\ \A u \in Users : clients[u] # last'.conn )
        => /\ stores' = stores
           /\ \A i \in 1..Len(sent') : sent'[i].conn = last'.conn ]_vars

\* The batch write the login on c is about to make cannot succeed.
BatchWriteFails(c) ==
    /\ thread[c].pc = "drain"
    /\ offline_messages[thread[c].to] # <<>>
    /\ ~(IsOnline(thread[c].to) /\ sock[clients[thread[c].to]] = "open")

\* C38 (the offline queue is cleared only after a successful send): when the
\* write of the offline batch fails during login the queue keeps all its
\* messages in their order and the login ends without clearing it; a queue
\* becomes empty only in the clearing step that follows a written batch.
C38_ClearedOnlyAfterSend ==
    [][ /\ \A c \in Conns :
             (BatchWriteFails(c) /\ thread'[c] # thread[c])
               => /\ offline_messages' = offline_messages
                  /\ thread'[c].pc = "idle"
                  /\ sent' = <<>>
        /\ \A u \in Users :
             (offline_messages[u] # <<>> /\ offline_messages'[u] = <<>>)
               => \E c \in Conns :
                      /\ thread[c].pc = "clear" /\ thread'[c].pc = "idle"
                      /\ thread[c].to = u
                      /\ thread[c].frame.type = "OFFLINE_MESSAGES" ]_vars

\* A login whose batch write failed has ended and both queued messages are
\* still there.
C38_Witness ==
    /\ last.op = "DRAIN"
    /\ sock[last.conn] = "broken"
    /\ sent = <<>>
    /\ thread[last.conn].pc = "idle"
    /\ Len(offline_messages[last.to]) = 2

\* ---------------------------------------------------------------- written stream
RECURSIVE WholeFrames(_)
\* bytes are a sequence of whole frames: eight decimal digits, then as many
\* bytes as they say, which are the JSON text of a message the server sends.
WholeFrames(bytes) ==
    \/ bytes = <<>>
    \/ /\ BLen(bytes) >= HeaderLen
       /\ AllDigits(Chars(BTake(bytes, HeaderLen)))
       /\ LET n == DecimalValue(Chars(BTake(bytes, HeaderLen)))
              body == BTake(BDrop(bytes, HeaderLen), n)
          IN  /\ BLen(bytes) >= HeaderLen + n
              /\ body \in {json_dumps(Pong), json_dumps(Media(1))}
              /\ WholeFrames(BDrop(bytes, HeaderLen + n))

\* C39 (frames on one connection are never interleaved): once the handlers
\* that were writing to a connection have returned from send_json, the bytes
\* written to it are a sequence of whole frames.
C39_WholeFrames ==
    (\A c \in Conns : thread[c].pc # "sendall") => WholeFrames(stream)

====
